---- MODULE Spec2Model ----
(***************************************************************************)
(* The adaptive circuit breaker of                                         *)
(* src/monitoring/performance-monitoring-system/4-automated-recovery/      *)
(* circuit-breaker-patterns/intelligent-circuit-breaker.py                 *)
(* (class IntelligentCircuitBreaker) as a state machine.                   *)
(*                                                                         *)
(* One breaker object `cb` serves several asyncio callers.  asyncio is     *)
(* cooperative: a coroutine runs without interruption until it awaits      *)
(* something that really suspends.  The suspension points of the breaker   *)
(* are the wrapped call itself (asyncio.wait_for) and, when the stores are *)
(* connected, the store writes made by a state transition.  Every action   *)
(* below is one such uninterrupted run of code.                            *)
(*                                                                         *)
(* The store writes of one transition (publish, event-log insert, snapshot) *)
(* are taken at the step of the transition; the snapshot holds the fields   *)
(* as that step leaves them.                                                *)
(*                                                                         *)
(* Units: time is in whole seconds; the error-rate threshold is in         *)
(* hundredths (0.5 is 50); the latency threshold is in 1/LatScale seconds. *)
(***************************************************************************)
EXTENDS Integers, Sequences, FiniteSets, TLC

VARIABLES
    config,     \* CircuitBreakerConfig, fixed at construction
    env,        \* the surroundings: stores connected or not, wall clock at start
    cb,         \* the fields of the IntelligentCircuitBreaker object
    now,        \* seconds since construction
    callers,    \* per caller: where its call() coroutine stands
    calls,      \* number of call() invocations so far
    manual,     \* number of force_open and of force_close invocations so far
    hist,       \* history variables (observers only, never read by the breaker)
    store,      \* what the stores hold: Redis snapshot, pub/sub channel, event log
    circuit_breakers    \* CircuitBreakerManager.circuit_breakers: name -> instance

vars == <<config, env, cb, now, callers, calls, manual, hist, store, circuit_breakers>>

----------------------------------------------------------------------------
(* Bounds of the model *)

NumCallers == 2
MaxCalls == 4
MaxTime == 3
MaxManual == 2
MaxManualCalls == 3
MaxManualTime == 2
MaxWarmCalls == 5
MaxWarmTime == 2
MaxStoreCalls == 3
MaxStoreTime == 2
MaxCreates == 2
MaxSchoolCalls == 4
MaxSchoolTime == 1

(* Constants of the program *)

LatencyWindowMaxlen == 50
MinErrorRateSamples == 10
ErrorRateLookback == 20
MinLatencySamples == 5
LatencyLookback == 10
MinAdaptiveSamples == 50
PatternCap == 100
PatternLookback == 10
MinSchools == 3
SchoolRecentSeconds == 300
ConfidenceSamples == 50
LatScale == 1000
NoTime == -1

Callers == 1..NumCallers
States == {"CLOSED", "OPEN", "HALF_OPEN", "FORCED_OPEN"}
FailureTypes == {"timeout", "error_rate"}
\* kwargs.get('school_id') of a call without one; a school id is a number > 0
NoSchool == 0
\* each caller is the client of one school; caller 1 passes no school_id
SchoolOf(c) == c - 1

----------------------------------------------------------------------------
(* Arithmetic and sequence helpers *)

Max(a, b) == IF a >= b THEN a ELSE b
Min(a, b) == IF a <= b THEN a ELSE b
Abs(a) == IF a >= 0 THEN a ELSE 0 - a

\* Python's s[-n:] for n > 0
LastN(s, n) == SubSeq(s, Max(1, Len(s) - n + 1), Len(s))

RECURSIVE SumSeq(_)
SumSeq(s) == IF s = <<>> THEN 0 ELSE Head(s) + SumSeq(Tail(s))

Squares(s) == [i \in 1..Len(s) |-> s[i] * s[i]]
Durations(w) == [i \in 1..Len(w) |-> w[i].duration]
CountFailed(w) == Cardinality({i \in 1..Len(w) : ~w[i].success})

\* variant: a full deque gives up its newest entry
DequeAppend_evicts_newest(q, x, m) ==
    IF m = 0 THEN <<>>
    ELSE IF Len(q) >= m THEN Append(SubSeq(q, 1, Len(q) - 1), x)
    ELSE Append(q, x)

\* collections.deque(maxlen=m).append(x): the oldest entry leaves on overflow
DequeAppend(q, x, m) ==
    IF m = 0 THEN <<>>
    ELSE IF Len(q) >= m THEN Append(Tail(q), x)
    ELSE Append(q, x)

\* datetime.now().hour and .weekday() of the model's second t
Hour(t) == (env.start_hour + t \div 3600) % 24
Weekday(t) == (env.start_weekday + (env.start_hour + t \div 3600) \div 24) % 7

----------------------------------------------------------------------------
(* The breaker object *)

ZeroProbability == [n |-> 0, w |-> 1, sum |-> 0, sumsq |-> 0]

NewStats ==
    [total_requests |-> 0, successful_requests |-> 0, failed_requests |-> 0,
     rejected_requests |-> 0, average_response_time |-> 0, error_rate |-> 0,
     state_changes |-> 0, last_trip_time |-> NoTime, recovery_time |-> NoTime,
     adaptive_adjustments |-> 0]

\* IntelligentCircuitBreaker.__init__, at second t
NewBreaker(cfg, t) ==
    [state |-> "CLOSED",
     state_changed_at |-> t,
     failure_count |-> 0,
     success_count |-> 0,
     last_failure_time |-> NoTime,
     request_window |-> <<>>,
     latency_window |-> <<>>,
     adaptive_failure_threshold |-> cfg.failure_threshold,
     adaptive_error_rate_threshold |-> cfg.error_rate_threshold,
     adaptive_latency_threshold |-> cfg.latency_threshold,
     failure_patterns |-> [k \in {} |-> <<>>],
     prediction_confidence |-> 0,
     predicted_failure_probability |-> ZeroProbability,
     stats |-> NewStats,
     school_metrics |-> [k \in {} |-> <<>>]]

\* RequestMetrics(...) as built by _record_success and _record_failure
RequestMetrics(t, duration, success, error_type, school) ==
    [timestamp |-> t, duration |-> duration, success |-> success,
     error_type |-> error_type,
     response_code |-> IF success THEN 200 ELSE 500,
     school_id |-> school]

----------------------------------------------------------------------------
(* Failure predictor *)

\* f"_{current_hour}" in pattern_key, for a key "<failure_type>_<key_hour>":
\* a substring test, so it holds when the decimal digits of current_hour
\* begin those of key_hour
MatchesHour(key_hour, current_hour) ==
    \/ key_hour = current_hour
    \/ current_hour >= 1 /\ key_hour >= 10 /\ key_hour \div 10 = current_hour

\* the durations _calculate_failure_probability collects: values[-10:] of
\* every matching bucket (only their count, sum and sum of squares are used)
RECURSIVE CollectPatterns(_, _, _)
CollectPatterns(patterns, keys, hour) ==
    IF keys = {} THEN <<>>
    ELSE LET k == CHOOSE x \in keys : TRUE
             rest == CollectPatterns(patterns, keys \ {k}, hour)
         IN IF MatchesHour(k[2], hour) /\ patterns[k] # <<>>
            THEN LastN(patterns[k], PatternLookback) \o rest
            ELSE rest

\* The predicted probability is
\*   min(n / max(w, 1) * 2, 1.0) * min(1 - std / (mean + 0.001), 1.0)
\* over n collected durations with the given sum and sum of squares.  std is
\* a square root, so the value is kept as its inputs [n, w, sum, sumsq] and
\* compared exactly.  With B = min(2n, w), D = n*sumsq - sum^2:
\*   value > 0.8  <=>  5B > 4w  /\  5000 * B * sqrt(D) < (5B - 4w) * (1000 * sum + n)
ProbabilityAbove80(p) ==
    /\ p.n > 0
    /\ LET B == Min(2 * p.n, p.w)
           K == 5 * B - 4 * p.w
           D == p.n * p.sumsq - p.sum * p.sum
           E == 25 * B * B * D
           X == K * p.sum
           Y == K * p.n
       IN /\ K > 0
          /\ \/ E <= X * X
             \/ /\ E - X * X <= 2000
                /\ 1000000 * (E - X * X) < 2000 * X * Y + Y * Y

\* _calculate_failure_probability, at second t
_calculate_failure_probability(b, t) ==
    LET current_patterns ==
            CollectPatterns(b.failure_patterns, DOMAIN b.failure_patterns, Hour(t))
        n == Len(current_patterns)
    IN IF DOMAIN b.failure_patterns = {} \/ n = 0
       THEN [b EXCEPT !.predicted_failure_probability = ZeroProbability,
                      !.prediction_confidence = 0]
       ELSE [b EXCEPT
               !.predicted_failure_probability =
                   [n |-> n, w |-> Max(Len(b.request_window), 1),
                    sum |-> SumSeq(current_patterns),
                    sumsq |-> SumSeq(Squares(current_patterns))],
               \* min(n / 50.0, 1.0), in fiftieths
               !.prediction_confidence = Min(n, ConfidenceSamples)]

\* _update_failure_patterns, at second t
_update_failure_patterns(b, t, failure_type, duration) ==
    LET key == <<failure_type, Hour(t)>>
        old == IF key \in DOMAIN b.failure_patterns
               THEN b.failure_patterns[key] ELSE <<>>
        appended == Append(old, duration)
        kept == IF Len(appended) > PatternCap
                THEN LastN(appended, PatternCap) ELSE appended
    IN _calculate_failure_probability(
           [b EXCEPT !.failure_patterns = (key :> kept) @@ b.failure_patterns], t)

----------------------------------------------------------------------------
(* State transitions.  Each assigns its fields before its first store write, *)
(* so the assignments are one uninterrupted run.                             *)

\* _transition_to_open, at second t
_transition_to_open(b, t) ==
    [b EXCEPT !.state = "OPEN",
              !.state_changed_at = t,
              !.stats.last_trip_time = t,
              !.stats.state_changes = @ + 1]

\* _transition_to_half_open, at second t
_transition_to_half_open(b, t) ==
    [b EXCEPT !.state = "HALF_OPEN",
              !.state_changed_at = t,
              !.success_count = 0,
              !.stats.state_changes = @ + 1]

\* _transition_to_closed, at second t
_transition_to_closed(b, t) ==
    [b EXCEPT !.state = "CLOSED",
              !.state_changed_at = t,
              !.failure_count = 0,
              !.success_count = 0,
              !.stats.state_changes = @ + 1,
              !.stats.recovery_time =
                  IF b.stats.last_trip_time # NoTime
                  THEN t - b.stats.last_trip_time ELSE @]

\* force_open, at second t
force_open(b, t) ==
    [b EXCEPT !.state = "FORCED_OPEN",
              !.state_changed_at = t,
              !.stats.state_changes = @ + 1]

\* variant: force_close that leaves failure_count as it is
force_close_keeps_failures(b, t) ==
    [b EXCEPT !.state = "CLOSED",
              !.state_changed_at = t,
              !.success_count = 0,
              !.stats.state_changes = @ + 1]

\* force_close, at second t
force_close(b, t) ==
    [b EXCEPT !.state = "CLOSED",
              !.state_changed_at = t,
              !.failure_count = 0,
              !.success_count = 0,
              !.stats.state_changes = @ + 1]

----------------------------------------------------------------------------
(* Admission *)

\* variant: the timeout counted as over one second early
RecoveryElapsed_early(b, t) == t - b.state_changed_at >= config.recovery_timeout - 1

\* variant: > instead of >=
RecoveryElapsed_late(b, t) == t - b.state_changed_at > config.recovery_timeout

\* time_since_trip >= self.config.recovery_timeout
RecoveryElapsed(b, t) == t - b.state_changed_at >= config.recovery_timeout

\* the HALF_OPEN gate: self.success_count >= self.config.test_request_count
ProbeQuotaReached(b) == b.success_count >= config.test_request_count

\* variant: FORCED_OPEN handled like OPEN
_should_reject_request_forced_as_open(b, t) ==
    CASE b.state = "CLOSED" -> [reject |-> FALSE, b |-> b]
      [] b.state \in {"OPEN", "FORCED_OPEN"} ->
            IF t - b.state_changed_at >= config.recovery_timeout
            THEN [reject |-> FALSE, b |-> _transition_to_half_open(b, t)]
            ELSE [reject |-> TRUE, b |-> b]
      [] b.state = "HALF_OPEN" ->
            [reject |-> b.success_count >= config.test_request_count, b |-> b]
      [] OTHER -> [reject |-> FALSE, b |-> b]

\* variant: a caller that meets HALF_OPEN below the probe quota takes the
\* transition again
_should_reject_request_retakes(b, t) ==
    CASE b.state = "CLOSED" -> [reject |-> FALSE, b |-> b]
      [] b.state = "OPEN" ->
            IF RecoveryElapsed(b, t)
            THEN [reject |-> FALSE, b |-> _transition_to_half_open(b, t)]
            ELSE [reject |-> TRUE, b |-> b]
      [] b.state = "HALF_OPEN" ->
            IF ProbeQuotaReached(b)
            THEN [reject |-> TRUE, b |-> b]
            ELSE [reject |-> FALSE, b |-> _transition_to_half_open(b, t)]
      [] b.state = "FORCED_OPEN" -> [reject |-> TRUE, b |-> b]
      [] OTHER -> [reject |-> FALSE, b |-> b]

\* _should_reject_request, at second t: whether the call is rejected, and
\* the breaker afterwards (OPEN moves to HALF_OPEN once the timeout is over)
_should_reject_request(b, t) ==
    CASE b.state = "CLOSED" -> [reject |-> FALSE, b |-> b]
      [] b.state = "OPEN" ->
            IF RecoveryElapsed(b, t)
            THEN [reject |-> FALSE, b |-> _transition_to_half_open(b, t)]
            ELSE [reject |-> TRUE, b |-> b]
      [] b.state = "HALF_OPEN" -> [reject |-> ProbeQuotaReached(b), b |-> b]
      [] b.state = "FORCED_OPEN" -> [reject |-> TRUE, b |-> b]
      [] OTHER -> [reject |-> FALSE, b |-> b]

\* variant: a rejection also counted as a failure
RejectRequest_as_failure(b) ==
    [b EXCEPT !.stats.rejected_requests = @ + 1,
              !.stats.failed_requests = @ + 1,
              !.failure_count = @ + 1]

\* variant: a rejection also counted as a request
RejectRequest_in_total(b) ==
    [b EXCEPT !.stats.rejected_requests = @ + 1,
              !.stats.total_requests = @ + 1]

\* the rejection branch of call(): count it and raise CircuitBreakerOpenException
RejectRequest(b) == [b EXCEPT !.stats.rejected_requests = @ + 1]

----------------------------------------------------------------------------
(* Trip conditions *)

\* variant: the count has to exceed the threshold
FailureCountCondition_strict(b) == b.failure_count > b.adaptive_failure_threshold

\* failure_count >= adaptive_failure_threshold
FailureCountCondition(b) == b.failure_count >= b.adaptive_failure_threshold

\* variant: the error rate over the whole window
ErrorRateCondition_whole_window(b) ==
    /\ Len(b.request_window) >= MinErrorRateSamples
    /\ CountFailed(b.request_window) * 100
         >= b.adaptive_error_rate_threshold * Len(b.request_window)

\* error rate over the last 20 outcomes, once the window holds 10
ErrorRateCondition(b) ==
    /\ Len(b.request_window) >= MinErrorRateSamples
    /\ CountFailed(LastN(b.request_window, ErrorRateLookback)) * 100
         >= b.adaptive_error_rate_threshold
              * Min(ErrorRateLookback, Len(b.request_window))

\* mean of the last 10 latencies, once the latency window holds 5
LatencyCondition(b) ==
    /\ Len(b.latency_window) >= MinLatencySamples
    /\ LET recent == LastN(b.latency_window, LatencyLookback)
       IN SumSeq(recent) * LatScale >= b.adaptive_latency_threshold * Len(recent)

\* config.ai_prediction and predicted_failure_probability > 0.8
PredictionCondition(b) ==
    config.ai_prediction /\ ProbabilityAbove80(b.predicted_failure_probability)

\* variant: half of the schools failing is enough
_check_school_specific_patterns_from_half(b, t) ==
    IF ~config.school_specific \/ Cardinality(DOMAIN b.school_metrics) < MinSchools
    THEN FALSE
    ELSE LET failed_schools ==
                 Cardinality({s \in DOMAIN b.school_metrics :
                     /\ t - b.school_metrics[s].timestamp < SchoolRecentSeconds
                     /\ ~b.school_metrics[s].success})
             total_schools == Cardinality(DOMAIN b.school_metrics)
         IN 2 * failed_schools >= total_schools

\* _check_school_specific_patterns, at second t
_check_school_specific_patterns(b, t) ==
    IF ~config.school_specific \/ Cardinality(DOMAIN b.school_metrics) < MinSchools
    THEN FALSE
    ELSE LET failed_schools ==
                 Cardinality({s \in DOMAIN b.school_metrics :
                     /\ t - b.school_metrics[s].timestamp < SchoolRecentSeconds
                     /\ ~b.school_metrics[s].success})
             total_schools == Cardinality(DOMAIN b.school_metrics)
         IN 2 * failed_schools > total_schools

SchoolCondition(b, t) ==
    config.school_specific /\ _check_school_specific_patterns(b, t)

\* should_trip at the end of the five checks
ShouldTrip(b, t) ==
    \/ FailureCountCondition(b)
    \/ ErrorRateCondition(b)
    \/ LatencyCondition(b)
    \/ PredictionCondition(b)
    \/ SchoolCondition(b, t)

\* variant: tripping from every state
TripsFrom_any(state) == TRUE

\* the states the final if/elif of _check_trip_conditions trips from
TripsFrom(state) == state \in {"CLOSED", "HALF_OPEN"}

\* variant: the reason of the first satisfied condition
trip_reason_first(b, t) ==
    IF FailureCountCondition(b) THEN "failure_count"
    ELSE IF ErrorRateCondition(b) THEN "error_rate"
    ELSE IF LatencyCondition(b) THEN "avg_latency"
    ELSE IF PredictionCondition(b) THEN "ai_prediction"
    ELSE IF SchoolCondition(b, t) THEN "school_specific_pattern_detected"
    ELSE ""

\* trip_reason at the end of the five checks: every satisfied condition
\* assigns it, so it names the last one satisfied
trip_reason(b, t) ==
    IF SchoolCondition(b, t) THEN "school_specific_pattern_detected"
    ELSE IF PredictionCondition(b) THEN "ai_prediction"
    ELSE IF LatencyCondition(b) THEN "avg_latency"
    ELSE IF ErrorRateCondition(b) THEN "error_rate"
    ELSE IF FailureCountCondition(b) THEN "failure_count"
    ELSE ""

\* variant: the trip without the test of the current state
_check_trip_conditions_unguarded(b, t) ==
    IF ShouldTrip(b, t) THEN _transition_to_open(b, t) ELSE b

\* _check_trip_conditions, at second t
_check_trip_conditions(b, t) ==
    IF ShouldTrip(b, t) /\ TripsFrom(b.state)
    THEN _transition_to_open(b, t)
    ELSE b

----------------------------------------------------------------------------
(* Adaptive thresholds *)

\* abs(new - old) >= step on binary64 values: decided by the exact values
\* unless they differ by exactly the step, where rounding decides
\* (0.5 - 0.05 differs from 0.5 by less than 0.05; 0.8 - 0.05 does not)
StepOutcomes(diff, step) ==
    IF diff > step THEN {TRUE}
    ELSE IF diff < step THEN {FALSE}
    ELSE BOOLEAN

\* recent_requests = list(self.request_window)[-50:]
recent_requests(w) == LastN(w, MinAdaptiveSamples)

\* traffic_volume = len(recent_requests)
traffic_volume(w) == Len(recent_requests(w))

\* the failure threshold for a traffic volume
failure_threshold_for(volume) ==
    IF volume > 40 THEN Min(config.failure_threshold + 2, 10)
    ELSE IF volume < 10 THEN Max(config.failure_threshold - 1, 2)
    ELSE config.failure_threshold

\* is_peak_hour at second t
is_peak_hour(t) == 9 <= Hour(t) /\ Hour(t) <= 17

\* is_weekend at second t
is_weekend(t) == Weekday(t) >= 5

\* _update_adaptive_thresholds, at second t: the breakers it can leave
_update_adaptive_thresholds(b, t) ==
    IF Len(b.request_window) < MinAdaptiveSamples THEN {b}
    ELSE
    LET recent == recent_requests(b.request_window)
        volume == traffic_volume(b.request_window)
        sum_latency == SumSeq(Durations(recent))
        new_failure_threshold == failure_threshold_for(volume)
        new_error_rate_threshold ==
            IF is_peak_hour(t) /\ ~is_weekend(t)
            THEN Min(b.adaptive_error_rate_threshold + 10, 80)
            ELSE Max(b.adaptive_error_rate_threshold - 5, 20)
        lat == b.adaptive_latency_threshold
        new_latency_threshold ==
            IF 2 * sum_latency * LatScale < lat * volume
            THEN Max((lat * 9) \div 10, 1 * LatScale)
            ELSE IF 2 * sum_latency * LatScale > 3 * lat * volume
            THEN Min((lat * 12) \div 10, 30 * LatScale)
            ELSE lat
        apply_failure ==
            Abs(new_failure_threshold - b.adaptive_failure_threshold) >= 1
    IN { [b EXCEPT
            !.adaptive_failure_threshold =
                IF apply_failure THEN new_failure_threshold ELSE @,
            !.adaptive_error_rate_threshold =
                IF apply_error_rate THEN new_error_rate_threshold ELSE @,
            !.adaptive_latency_threshold =
                IF apply_latency THEN new_latency_threshold ELSE @,
            !.stats.adaptive_adjustments =
                IF apply_failure \/ apply_error_rate \/ apply_latency
                THEN @ + 1 ELSE @] :
          apply_error_rate \in
              StepOutcomes(Abs(new_error_rate_threshold
                               - b.adaptive_error_rate_threshold), 5),
          apply_latency \in
              StepOutcomes(2 * Abs(new_latency_threshold - lat), LatScale) }

----------------------------------------------------------------------------
(* Recording an outcome *)

\* variant: > instead of >=
CloseCondition_strict(b) == b.success_count > config.success_threshold

\* self.success_count >= self.config.success_threshold
CloseCondition(b) == b.success_count >= config.success_threshold

\* variant: a success clears the failure count
DecayFailureCount_reset(n) == 0

\* self.failure_count = max(0, self.failure_count - 1)
DecayFailureCount(n) == Max(0, n - 1)

\* variant: a success is followed by the trip conditions too
RecordSuccessHead_checks_trip(b, t, duration, school) ==
    LET metrics == RequestMetrics(t, duration, TRUE, "none", school)
        b1 == [b EXCEPT
                 !.stats.total_requests = @ + 1,
                 !.stats.successful_requests = @ + 1,
                 !.success_count = @ + 1,
                 !.failure_count = DecayFailureCount(@),
                 !.request_window = DequeAppend(@, metrics, config.window_size),
                 !.latency_window = DequeAppend(@, duration, LatencyWindowMaxlen),
                 !.school_metrics =
                     IF school # NoSchool THEN (school :> metrics) @@ @ ELSE @]
    IN IF b1.state = "HALF_OPEN" /\ CloseCondition(b1)
       THEN _check_trip_conditions(_transition_to_closed(b1, t), t)
       ELSE _check_trip_conditions(b1, t)

\* variant: the success that meets success_threshold closes the breaker
\* from any state but CLOSED
RecordSuccessHead_closes_anywhere(b, t, duration, school) ==
    LET metrics == RequestMetrics(t, duration, TRUE, "none", school)
        b1 == [b EXCEPT
                 !.stats.total_requests = @ + 1,
                 !.stats.successful_requests = @ + 1,
                 !.success_count = @ + 1,
                 !.failure_count = DecayFailureCount(@),
                 !.request_window = DequeAppend(@, metrics, config.window_size),
                 !.latency_window = DequeAppend(@, duration, LatencyWindowMaxlen),
                 !.school_metrics =
                     IF school # NoSchool THEN (school :> metrics) @@ @ ELSE @]
    IN IF b1.state # "CLOSED" /\ CloseCondition(b1)
       THEN _transition_to_closed(b1, t)
       ELSE b1

\* _record_success up to and including the HALF_OPEN recovery check
RecordSuccessHead(b, t, duration, school) ==
    LET metrics == RequestMetrics(t, duration, TRUE, "none", school)
        b1 == [b EXCEPT
                 !.stats.total_requests = @ + 1,
                 !.stats.successful_requests = @ + 1,
                 !.success_count = @ + 1,
                 !.failure_count = DecayFailureCount(@),
                 !.request_window = DequeAppend(@, metrics, config.window_size),
                 !.latency_window = DequeAppend(@, duration, LatencyWindowMaxlen),
                 !.school_metrics =
                     IF school # NoSchool THEN (school :> metrics) @@ @ ELSE @]
    IN IF b1.state = "HALF_OPEN" /\ CloseCondition(b1)
       THEN _transition_to_closed(b1, t)
       ELSE b1

\* the rest of _record_success: the adaptive update, when configured
RecordSuccessTail(b, t) ==
    IF config.adaptive_thresholds THEN _update_adaptive_thresholds(b, t) ELSE {b}

\* _record_failure up to and including _check_trip_conditions
RecordFailureHead(b, t, failure_type, duration, school) ==
    LET metrics == RequestMetrics(t, duration, FALSE, failure_type, school)
        b1 == [b EXCEPT
                 !.stats.total_requests = @ + 1,
                 !.stats.failed_requests = @ + 1,
                 !.failure_count = @ + 1,
                 !.success_count = 0,
                 !.last_failure_time = t,
                 !.request_window = DequeAppend(@, metrics, config.window_size),
                 !.latency_window = DequeAppend(@, duration, LatencyWindowMaxlen),
                 !.school_metrics =
                     IF school # NoSchool THEN (school :> metrics) @@ @ ELSE @]
    IN _check_trip_conditions(b1, t)

\* the rest of _record_failure: the failure predictor
RecordFailureTail(b, t, failure_type, duration) ==
    _update_failure_patterns(b, t, failure_type, duration)

\* A transition ran between `before` and `after`; with the stores connected
\* its _persist_state awaits the store and the coroutine is suspended there
Suspends(before, after) ==
    env.connected /\ after.stats.state_changes # before.stats.state_changes

----------------------------------------------------------------------------
(* The stores *)

\* nothing stored yet: no snapshot under the breaker's key, nothing
\* published, no event logged
\* the name the breaker is registered under (config.name)
BreakerName == "auth_service_cb"

NoStore == [snapshot |-> <<>>, published |-> 0, logged |-> 0]

\* the outcomes a store write can have: TRUE when it succeeds
WriteOutcomes == IF env.flaky THEN BOOLEAN ELSE {TRUE}

\* one outcome for each write of a transition
Writes == [pub : WriteOutcomes, log : WriteOutcomes, snap : WriteOutcomes]

\* state_data of _persist_state
Snapshot(b) ==
    [state |-> b.state,
     state_changed_at |-> b.state_changed_at,
     failure_count |-> b.failure_count,
     success_count |-> b.success_count,
     adaptive_failure_threshold |-> b.adaptive_failure_threshold,
     adaptive_error_rate_threshold |-> b.adaptive_error_rate_threshold,
     adaptive_latency_threshold |-> b.adaptive_latency_threshold,
     predicted_failure_probability |-> b.predicted_failure_probability,
     stats |-> b.stats]

\* variant: a failed snapshot write leaves _persist_state as an exception
_persist_state_raising(b, s, ok) ==
    [store |-> IF env.connected /\ ok
               THEN [s EXCEPT !.snapshot = <<Snapshot(b)>>] ELSE s,
     raised |-> env.connected /\ ~ok]

\* _persist_state of breaker b with the stores holding s: the stores
\* afterwards, and whether an exception leaves the function (never: the
\* except clause logs it)
_persist_state(b, s, ok) ==
    [store |-> IF env.connected /\ ok
               THEN [s EXCEPT !.snapshot = <<Snapshot(b)>>] ELSE s,
     raised |-> FALSE]

\* json.dumps(notification) raises TypeError once stats.last_trip_time is a
\* datetime; the except clause catches it before anything is sent
NotificationSerializable(b) == b.stats.last_trip_time = NoTime

\* _notify_state_change of breaker b: publish, then the event-log insert,
\* both inside one try; a failed publish skips the insert
_notify_state_change(b, s, pub_ok, log_ok) ==
    [store |-> IF env.connected /\ NotificationSerializable(b) /\ pub_ok
               THEN [s EXCEPT !.published = @ + 1,
                              !.logged = IF log_ok THEN @ + 1 ELSE @]
               ELSE s,
     raised |-> FALSE]

\* the two awaits that end every transition: _notify_state_change, then
\* _persist_state
TransitionWrites(b, s, w) ==
    LET n == _notify_state_change(b, s, w.pub, w.log)
        p == _persist_state(b, n.store, w.snap)
    IN IF n.raised THEN n
       ELSE p

\* _load_state_from_redis into breaker b from the stores s; ok is whether
\* the read succeeds (a failed read is logged and b stays as constructed).
\* The snapshot holds every field of stats, the load takes six of them.
_load_state_from_redis(b, s, ok) ==
    IF ~env.connected \/ ~ok \/ s.snapshot = <<>> THEN b
    ELSE LET d == s.snapshot[1]
         IN [b EXCEPT
               !.state = d.state,
               !.state_changed_at = d.state_changed_at,
               !.failure_count = d.failure_count,
               !.success_count = d.success_count,
               !.adaptive_failure_threshold = d.adaptive_failure_threshold,
               !.adaptive_error_rate_threshold = d.adaptive_error_rate_threshold,
               !.adaptive_latency_threshold = d.adaptive_latency_threshold,
               !.predicted_failure_probability = d.predicted_failure_probability,
               !.stats.total_requests = d.stats.total_requests,
               !.stats.successful_requests = d.stats.successful_requests,
               !.stats.failed_requests = d.stats.failed_requests,
               !.stats.rejected_requests = d.stats.rejected_requests,
               !.stats.state_changes = d.stats.state_changes,
               !.stats.adaptive_adjustments = d.stats.adaptive_adjustments]

\* IntelligentCircuitBreaker.initialize at second t on a new breaker: the
\* snapshot is loaded; _load_historical_patterns reads a table nothing in
\* this program writes, and finds it empty
initialize(cfg, s, t, ok) == _load_state_from_redis(NewBreaker(cfg, t), s, ok)

\* get_status
get_status(b) ==
    [name |-> BreakerName,
     state |-> b.state,
     state_changed_at |-> b.state_changed_at,
     failure_count |-> b.failure_count,
     success_count |-> b.success_count,
     adaptive_thresholds |->
         [failure_threshold |-> b.adaptive_failure_threshold,
          error_rate_threshold |-> b.adaptive_error_rate_threshold,
          latency_threshold |-> b.adaptive_latency_threshold],
     ai_prediction |->
         [failure_probability |-> b.predicted_failure_probability,
          confidence |-> b.prediction_confidence],
     stats |-> b.stats,
     request_window_size |-> Len(b.request_window),
     school_metrics_count |-> Cardinality(DOMAIN b.school_metrics)]

\* another breaker main() registers with the manager
OtherBreakers == {"kitchen_service_cb"}

\* self.circuit_breakers as name -> state: this breaker when registered, and
\* the other breakers in the states others gives them
Registry(others) ==
    [name \in DOMAIN circuit_breakers \cup DOMAIN others |->
        IF name \in DOMAIN circuit_breakers THEN cb.state ELSE others[name]]

\* variant: a breaker forced open is unhealthy too
RECURSIVE health_check_all_forced(_)
health_check_all_forced(states) ==
    IF DOMAIN states = {} THEN TRUE
    ELSE LET name == CHOOSE n \in DOMAIN states : TRUE
             rest == [n \in DOMAIN states \ {name} |-> states[n]]
         IN /\ states[name] \notin {"OPEN", "FORCED_OPEN"}
            /\ health_check_all_forced(rest)

\* CircuitBreakerManager.health_check_all over the registry states: healthy
\* starts True and every breaker found OPEN sets it False
RECURSIVE health_check_all(_)
health_check_all(states) ==
    IF DOMAIN states = {} THEN TRUE
    ELSE LET name == CHOOSE n \in DOMAIN states : TRUE
             rest == [n \in DOMAIN states \ {name} |-> states[n]]
         IN /\ states[name] # "OPEN"
            /\ health_check_all(rest)

\* what the caller of an operation gets when its store writes r are done
ResultAfter(r, result) == IF r.raised THEN "store_error" ELSE result

----------------------------------------------------------------------------
(* Configurations and surroundings the model runs *)

Configs ==
    { [failure_threshold |-> p[1],
       recovery_timeout |-> 2,
       test_request_count |-> p[2],
       success_threshold |-> p[3],
       timeout_duration |-> 2,
       error_rate_threshold |-> 50,
       latency_threshold |-> 5 * LatScale,
       window_size |-> 3,
       adaptive_thresholds |-> TRUE,
       ai_prediction |-> p[4],
       school_specific |-> FALSE] :
      p \in {<<2, 1, 1, FALSE>>, <<2, 1, 2, FALSE>>,
             <<2, 2, 2, FALSE>>, <<3, 3, 3, TRUE>>} }

\* the configurations run together with the operator's force actions
ManualConfigs ==
    { [failure_threshold |-> 1,
       recovery_timeout |-> 1,
       test_request_count |-> 1,
       success_threshold |-> st,
       timeout_duration |-> 2,
       error_rate_threshold |-> 50,
       latency_threshold |-> 5 * LatScale,
       window_size |-> 3,
       adaptive_thresholds |-> TRUE,
       ai_prediction |-> FALSE,
       school_specific |-> FALSE] : st \in {1, 2} }

Envs ==
    { [connected |-> c, flaky |-> FALSE, start_hour |-> 10, start_weekday |-> 2] :
        c \in BOOLEAN }

----------------------------------------------------------------------------
(* Callers.  hist.run counts the failures recorded in a row since the       *)
(* breaker was last CLOSED with failure_count 0 (-1: no such run);         *)
(* hist.probes counts the successes recorded in a row in the current       *)
(* HALF_OPEN episode; hist.invocations counts the starts of the wrapped    *)
(* call; hist.rejected_in is the state the last rejected call met;         *)
(* hist.result is what the last finished call gave its caller;             *)
(* hist.creates counts the calls of create_circuit_breaker after the        *)
(* first; hist.streak counts the failures recorded in a row, with no       *)
(* success recorded in between; hist.reason is the condition named in the  *)
(* reason of the last trip.                                                *)

IdleCaller ==
    [pc |-> "idle", start |-> 0, invoked_at |-> 0, school |-> NoSchool,
     failure_type |-> "none", duration |-> 0]

Start(configs) ==
    /\ config \in configs
    /\ env \in Envs
    /\ cb = NewBreaker(config, 0)
    /\ now = 0
    /\ callers = [c \in Callers |-> IdleCaller]
    /\ calls = 0
    /\ manual = [opens |-> 0, closes |-> 0]
    /\ hist = [run |-> 0, probes |-> 0, invocations |-> 0, rejected_in |-> "none",
               result |-> "none", creates |-> 0, streak |-> 0, reason |-> "none"]
    /\ store = NoStore
    /\ circuit_breakers =
         [name \in (IF env.connected THEN {BreakerName} ELSE {}) |-> 1]

Init == Start(Configs)

InitManual == Start(ManualConfigs)

\* the writes of the transition that took breaker `before` to `after`, if
\* one did, on the stores s
WritesOf(before, after, s, w) ==
    IF after.stats.state_changes # before.stats.state_changes
    THEN TransitionWrites(after, s, w)
    ELSE [store |-> s, raised |-> FALSE]

\* call() from its entry to its first suspension: the admission decision and,
\* when admitted, the start of the wrapped call
\* call(func, school_id=school) by caller c
CallFor(c, limit, school) ==
    /\ callers[c].pc = "idle"
    /\ calls < limit
    /\ calls' = calls + 1
    /\ \E w \in Writes :
       LET r == _should_reject_request(cb, now)
           tw == WritesOf(cb, r.b, store, w)
           suspended == Suspends(cb, r.b)
       IN /\ store' = tw.store
          /\ IF r.reject
             THEN /\ cb' = RejectRequest(r.b)
                  /\ callers' = callers
                  /\ hist' = [hist EXCEPT !.rejected_in = cb.state,
                                          !.result = "rejected"]
             ELSE IF tw.raised
             THEN /\ cb' = r.b
                  /\ callers' = callers
                  /\ hist' = [hist EXCEPT !.probes = 0, !.result = "store_error"]
             ELSE /\ cb' = r.b
                  /\ callers' = [callers EXCEPT ![c] =
                         [IdleCaller EXCEPT
                            !.pc = IF suspended THEN "admit_io" ELSE "running",
                            !.start = now, !.invoked_at = now, !.school = school]]
                  /\ hist' = [hist EXCEPT
                         !.probes = IF r.b.state # cb.state THEN 0 ELSE @,
                         !.invocations = IF suspended THEN @ ELSE @ + 1]
    /\ UNCHANGED <<config, env, now, manual, circuit_breakers>>

CallWithin(c, limit) == CallFor(c, limit, SchoolOf(c))

Call(c) == CallWithin(c, MaxCalls)

ManualCall(c) == CallWithin(c, MaxManualCalls)

\* the store write of _transition_to_half_open is done: _should_reject_request
\* returns False and the wrapped call starts
ResumeAdmit(c) ==
    /\ callers[c].pc = "admit_io"
    /\ callers' = [callers EXCEPT ![c].pc = "running", ![c].invoked_at = now]
    /\ hist' = [hist EXCEPT !.invocations = @ + 1]
    /\ UNCHANGED <<config, env, cb, now, calls, manual, store, circuit_breakers>>

\* the wrapped call has not reached its deadline
BeforeDeadline(c) == now - callers[c].invoked_at < config.timeout_duration

\* the wrapped call returns: _record_success
ReturnOk(c) ==
    /\ callers[c].pc = "running"
    /\ BeforeDeadline(c)
    /\ \E w \in Writes, last_ok \in WriteOutcomes :
       LET duration == now - callers[c].start
           head == RecordSuccessHead(cb, now, duration, callers[c].school)
           tw == WritesOf(cb, head, store, w)
           h == [hist EXCEPT
                   !.run = IF head.state = "CLOSED" /\ head.failure_count = 0
                           THEN 0 ELSE -1,
                   !.probes = IF cb.state = "HALF_OPEN" THEN @ + 1 ELSE @,
                   !.streak = 0]
       IN IF tw.raised
          THEN /\ cb' = head
               /\ store' = tw.store
               /\ callers' = [callers EXCEPT ![c] = IdleCaller]
               /\ hist' = [h EXCEPT !.result = "store_error"]
          ELSE IF Suspends(cb, head)
          THEN /\ cb' = head
               /\ store' = tw.store
               /\ callers' = [callers EXCEPT ![c].pc = "success_io"]
               /\ hist' = h
          ELSE \E b \in RecordSuccessTail(head, now) :
               LET p == _persist_state(b, tw.store, last_ok)
               IN /\ cb' = b
                  /\ store' = p.store
                  /\ callers' = [callers EXCEPT ![c] = IdleCaller]
                  /\ hist' = [h EXCEPT !.result = ResultAfter(p, "ok")]
    /\ UNCHANGED <<config, env, now, calls, manual, circuit_breakers>>

\* variant: the caller gets the breaker's own error
Reraised_as_breaker_error(failure_type) == "rejected"

\* what the caller gets after a failure of the given type: the exception the
\* bare raise of the except clause re-raises
Reraised(failure_type) == IF failure_type = "timeout" THEN "timeout" ELSE "error"

\* _record_failure for caller c's call
Fail(c, failure_type) ==
    \E w \in Writes, last_ok \in WriteOutcomes :
    LET duration == now - callers[c].start
        head == RecordFailureHead(cb, now, failure_type, duration, callers[c].school)
        tw == WritesOf(cb, head, store, w)
        h == [hist EXCEPT
                !.run = IF @ >= 0 THEN @ + 1 ELSE -1,
                !.probes = 0,
                !.streak = @ + 1,
                !.reason = IF head.stats.state_changes # cb.stats.state_changes
                           THEN trip_reason(head, now) ELSE @]
    IN /\ IF tw.raised
          THEN /\ cb' = head
               /\ store' = tw.store
               /\ callers' = [callers EXCEPT ![c] = IdleCaller]
               /\ hist' = [h EXCEPT !.result = "store_error"]
          ELSE IF Suspends(cb, head)
          THEN /\ cb' = head
               /\ store' = tw.store
               /\ callers' = [callers EXCEPT ![c].pc = "failure_io",
                                             ![c].failure_type = failure_type,
                                             ![c].duration = duration]
               /\ hist' = h
          ELSE LET b == RecordFailureTail(head, now, failure_type, duration)
                   p == _persist_state(b, tw.store, last_ok)
               IN /\ cb' = b
                  /\ store' = p.store
                  /\ callers' = [callers EXCEPT ![c] = IdleCaller]
                  /\ hist' = [h EXCEPT !.result = ResultAfter(p, Reraised(failure_type))]
       /\ UNCHANGED <<config, env, now, calls, manual, circuit_breakers>>

\* the wrapped call raises: except Exception
RaiseError(c) ==
    /\ callers[c].pc = "running"
    /\ BeforeDeadline(c)
    /\ Fail(c, "error_rate")

\* asyncio.wait_for gives up at the deadline: except asyncio.TimeoutError
Timeout(c) ==
    /\ callers[c].pc = "running"
    /\ ~BeforeDeadline(c)
    /\ Fail(c, "timeout")

\* _record_success goes on after the store write of _transition_to_closed
ResumeSuccess(c) ==
    /\ callers[c].pc = "success_io"
    /\ \E b \in RecordSuccessTail(cb, now), last_ok \in WriteOutcomes :
       LET p == _persist_state(b, store, last_ok)
       IN /\ cb' = b
          /\ store' = p.store
          /\ hist' = [hist EXCEPT !.result = ResultAfter(p, "ok")]
    /\ callers' = [callers EXCEPT ![c] = IdleCaller]
    /\ UNCHANGED <<config, env, now, calls, manual, circuit_breakers>>

\* _record_failure goes on after the store write of _transition_to_open
ResumeFailure(c) ==
    /\ callers[c].pc = "failure_io"
    /\ \E last_ok \in WriteOutcomes :
       LET b == RecordFailureTail(cb, now, callers[c].failure_type,
                                  callers[c].duration)
           p == _persist_state(b, store, last_ok)
       IN /\ cb' = b
          /\ store' = p.store
          /\ hist' = [hist EXCEPT
                 !.result = ResultAfter(p, Reraised(callers[c].failure_type))]
    /\ callers' = [callers EXCEPT ![c] = IdleCaller]
    /\ UNCHANGED <<config, env, now, calls, manual, circuit_breakers>>

\* the operator calls force_open
ForceOpen ==
    /\ manual.opens + manual.closes < MaxManual
    /\ manual' = [manual EXCEPT !.opens = @ + 1]
    /\ cb' = force_open(cb, now)
    /\ \E w \in Writes : store' = TransitionWrites(cb', store, w).store
    /\ hist' = [hist EXCEPT !.run = -1, !.probes = 0]
    /\ UNCHANGED <<config, env, now, callers, calls, circuit_breakers>>

\* the operator calls force_close
ForceClose ==
    /\ manual.opens + manual.closes < MaxManual
    /\ manual' = [manual EXCEPT !.closes = @ + 1]
    /\ cb' = force_close(cb, now)
    /\ \E w \in Writes : store' = TransitionWrites(cb', store, w).store
    /\ hist' = [hist EXCEPT !.run = 0, !.probes = 0]
    /\ UNCHANGED <<config, env, now, callers, calls, circuit_breakers>>

\* a second passes; a running call at its deadline is timed out first
TickWithin(limit) ==
    /\ now < limit
    /\ \A c \in Callers : callers[c].pc = "running" => BeforeDeadline(c)
    /\ now' = now + 1
    /\ UNCHANGED <<config, env, cb, callers, calls, manual, hist, store,
                   circuit_breakers>>

Tick == TickWithin(MaxTime)

ManualTick == TickWithin(MaxManualTime)

\* what the calls in flight can do
Progress ==
    \/ \E c \in Callers : ResumeAdmit(c)
    \/ \E c \in Callers : ReturnOk(c)
    \/ \E c \in Callers : RaiseError(c)
    \/ \E c \in Callers : Timeout(c)
    \/ \E c \in Callers : ResumeSuccess(c)
    \/ \E c \in Callers : ResumeFailure(c)

Next ==
    \/ \E c \in Callers : Call(c)
    \/ Progress
    \/ Tick

\* callers only, no operator
Spec == Init /\ [][Next]_vars

NextManual ==
    \/ \E c \in Callers : ManualCall(c)
    \/ Progress
    \/ ForceOpen
    \/ ForceClose
    \/ ManualTick

\* callers and the operator's force_open / force_close
SpecManual == InitManual /\ [][NextManual]_vars

----------------------------------------------------------------------------
(* A breaker in service: the adaptive update needs 50 outcomes in the       *)
(* window, so this specification starts at second 1 from the breaker as    *)
(* WarmUp successful calls have left it, one short of the first update.     *)

WarmUp == MinAdaptiveSamples - 1

\* the breaker constructed at second 0 after n calls that succeeded at
\* second 1, the even ones within the second and the odd ones after a second
RECURSIVE Warmed(_, _)
Warmed(cfg, n) ==
    IF n = 0 THEN NewBreaker(cfg, 0)
    ELSE CHOOSE b \in { RecordSuccessHead(prev, 1, n % 2, NoSchool) :
                          prev \in {Warmed(cfg, n - 1)} } : TRUE

\* auth_service_cb-like configurations with a window that can hold the 50
\* outcomes; error_rate_threshold 0.1 is the value main() configures
WarmConfigs ==
    { [failure_threshold |-> 2,
       recovery_timeout |-> 1,
       test_request_count |-> 1,
       success_threshold |-> 1,
       timeout_duration |-> 1,
       error_rate_threshold |-> er,
       latency_threshold |-> 5 * LatScale,
       window_size |-> MinAdaptiveSamples,
       adaptive_thresholds |-> TRUE,
       ai_prediction |-> FALSE,
       school_specific |-> FALSE] : er \in {10, 50} }

InitWarm ==
    /\ config \in WarmConfigs
    /\ env \in Envs
    /\ cb = Warmed(config, WarmUp)
    /\ now = 1
    /\ callers = [c \in Callers |-> IdleCaller]
    /\ calls = WarmUp
    /\ manual = [opens |-> 0, closes |-> 0]
    /\ hist = [run |-> 0, probes |-> 0, invocations |-> WarmUp,
               rejected_in |-> "none", result |-> "ok", creates |-> 0, streak |-> 0, reason |-> "none"]
    /\ store = _persist_state(cb, NoStore, TRUE).store
    /\ circuit_breakers =
         [name \in (IF env.connected THEN {BreakerName} ELSE {}) |-> 1]

WarmCall(c) == CallWithin(c, WarmUp + MaxWarmCalls)

WarmTick == TickWithin(MaxWarmTime)

NextWarm ==
    \/ \E c \in Callers : WarmCall(c)
    \/ Progress
    \/ WarmTick

SpecWarm == InitWarm /\ [][NextWarm]_vars

----------------------------------------------------------------------------
(* A breaker under its manager with the stores connected, where a write or *)
(* a read of a store can fail, and where create_circuit_breaker is called  *)
(* again under the name already registered while no call is in flight.     *)

StoreConfigs ==
    { [failure_threshold |-> 2,
       recovery_timeout |-> 1,
       test_request_count |-> 1,
       success_threshold |-> 1,
       timeout_duration |-> 2,
       error_rate_threshold |-> 50,
       latency_threshold |-> 5 * LatScale,
       window_size |-> 3,
       adaptive_thresholds |-> TRUE,
       ai_prediction |-> FALSE,
       school_specific |-> FALSE] }

StoreEnvs ==
    { [connected |-> TRUE, flaky |-> f, start_hour |-> 10, start_weekday |-> 2] :
        f \in BOOLEAN }

InitStore ==
    /\ config \in StoreConfigs
    /\ env \in StoreEnvs
    /\ cb = initialize(config, NoStore, 0, TRUE)
    /\ now = 0
    /\ callers = [c \in Callers |-> IdleCaller]
    /\ calls = 0
    /\ manual = [opens |-> 0, closes |-> 0]
    /\ hist = [run |-> 0, probes |-> 0, invocations |-> 0, rejected_in |-> "none",
               result |-> "none", creates |-> 0, streak |-> 0, reason |-> "none"]
    /\ store = NoStore
    /\ circuit_breakers = [name \in {BreakerName} |-> 1]

\* CircuitBreakerManager.create_circuit_breaker under the registered name: a
\* new breaker is constructed and initialized, and takes the name
create_circuit_breaker ==
    /\ hist.creates < MaxCreates
    /\ \A c \in Callers : callers[c].pc = "idle"
    /\ \E ok \in WriteOutcomes : cb' = initialize(config, store, now, ok)
    /\ circuit_breakers' =
         [name \in DOMAIN circuit_breakers \cup {BreakerName} |->
            IF name = BreakerName
            THEN hist.creates + 2
            ELSE circuit_breakers[name]]
    /\ hist' = [hist EXCEPT !.creates = @ + 1]
    /\ UNCHANGED <<config, env, now, callers, calls, manual, store>>

StoreCall(c) == CallWithin(c, MaxStoreCalls)

StoreTick == TickWithin(MaxStoreTime)

NextStore ==
    \/ \E c \in Callers : StoreCall(c)
    \/ Progress
    \/ create_circuit_breaker
    \/ StoreTick

SpecStore == InitStore /\ [][NextStore]_vars

----------------------------------------------------------------------------
(* Calls on behalf of several schools, with and without the school rule    *)
(* switched on; a quiet period can pass while no call is in flight.        *)

\* each caller is the client of two schools
SchoolsOf(c) == {2 * c - 1, 2 * c}

SchoolConfigs ==
    { [failure_threshold |-> 3,
       recovery_timeout |-> 1,
       test_request_count |-> 1,
       success_threshold |-> 1,
       timeout_duration |-> 1,
       error_rate_threshold |-> 50,
       latency_threshold |-> 5 * LatScale,
       window_size |-> 3,
       adaptive_thresholds |-> TRUE,
       ai_prediction |-> FALSE,
       school_specific |-> ss] : ss \in BOOLEAN }

InitSchools ==
    /\ config \in SchoolConfigs
    /\ env \in {e \in Envs : e.connected}
    /\ cb = NewBreaker(config, 0)
    /\ now = 0
    /\ callers = [c \in Callers |-> IdleCaller]
    /\ calls = 0
    /\ manual = [opens |-> 0, closes |-> 0]
    /\ hist = [run |-> 0, probes |-> 0, invocations |-> 0, rejected_in |-> "none",
               result |-> "none", creates |-> 0, streak |-> 0, reason |-> "none"]
    /\ store = NoStore
    /\ circuit_breakers = [name \in {BreakerName} |-> 1]

SchoolCall(c) == \E school \in SchoolsOf(c) : CallFor(c, MaxSchoolCalls, school)

SchoolTick == TickWithin(MaxSchoolTime)

\* no call arrives for just under or just over five minutes
QuietPeriod ==
    /\ now <= MaxSchoolTime
    /\ \A c \in Callers : callers[c].pc = "idle"
    /\ \E d \in {SchoolRecentSeconds - 1, SchoolRecentSeconds} : now' = now + d
    /\ UNCHANGED <<config, env, cb, callers, calls, manual, hist, store,
                   circuit_breakers>>

NextSchools ==
    \/ \E c \in Callers : SchoolCall(c)
    \/ Progress
    \/ SchoolTick
    \/ QuietPeriod

SpecSchools == InitSchools /\ [][NextSchools]_vars

----------------------------------------------------------------------------
(* Properties *)

\* steps, told apart by what they change
CallStep == calls' = calls + 1
RejectedStep == CallStep /\ callers' = callers
AdmittedStep ==
    /\ CallStep
    /\ \E c \in Callers :
         /\ callers[c].pc = "idle"
         /\ \/ callers'[c].pc = "running" /\ hist'.invocations = hist.invocations + 1
            \/ callers'[c].pc = "admit_io"
SuccessRecorded == cb'.stats.successful_requests = cb.stats.successful_requests + 1
FailureRecorded == cb'.stats.failed_requests = cb.stats.failed_requests + 1
ForceOpenStep == manual'.opens = manual.opens + 1
ForceCloseStep == manual'.closes = manual.closes + 1
NotInvoked == callers' = callers /\ hist'.invocations = hist.invocations

\* C1: a call that meets the breaker OPEN less than recovery_timeout after
\* state_changed_at is rejected (counted in rejected_requests), the wrapped
\* call is not started, and the state stays OPEN.
C1_OpenRejectsBeforeTimeout ==
    [][ (/\ CallStep
         /\ cb.state = "OPEN"
         /\ now - cb.state_changed_at < config.recovery_timeout)
        => /\ RejectedStep
           /\ NotInvoked
           /\ cb'.stats.rejected_requests = cb.stats.rejected_requests + 1
           /\ cb'.state = "OPEN" ]_vars

\* a call was rejected by the OPEN breaker, which tripped once and is still
\* within its recovery timeout
C1_Witness ==
    /\ cb.state = "OPEN"
    /\ cb.stats.state_changes = 1
    /\ hist.rejected_in = "OPEN"
    /\ cb.stats.rejected_requests >= 1
    /\ now - cb.state_changed_at < config.recovery_timeout

\* C2: when the failures recorded in a row since the breaker was CLOSED with
\* failure_count 0 reach the adaptive failure threshold, the breaker is OPEN;
\* and a failure recorded while the breaker is OPEN causes no transition:
\* state, state_changes and state_changed_at stay as they are.
C2_TripsOnce ==
    [][ FailureRecorded
        => /\ (hist'.run >= 1 /\ hist'.run >= cb'.adaptive_failure_threshold)
                => cb'.state = "OPEN"
           /\ cb.state = "OPEN"
                => /\ cb'.state = "OPEN"
                   /\ cb'.stats.state_changes = cb.stats.state_changes
                   /\ cb'.state_changed_at = cb.state_changed_at ]_vars

\* one more failure than the threshold was recorded in a row, the last of
\* them while OPEN, and the breaker changed state once
C2_Witness ==
    /\ cb.state = "OPEN"
    /\ ~config.ai_prediction
    /\ hist.run > cb.adaptive_failure_threshold
    /\ cb.stats.failed_requests = hist.run
    /\ cb.stats.state_changes = 1

\* C3: a call that meets the breaker OPEN at least recovery_timeout after
\* state_changed_at moves it to HALF_OPEN with success_count 0 and is
\* admitted: the wrapped call starts, at once or after the store write of
\* the transition.
C3_RecoveryProbeAdmitted ==
    [][ /\ (/\ CallStep
            /\ cb.state = "OPEN"
            /\ now - cb.state_changed_at >= config.recovery_timeout)
           => /\ cb'.state = "HALF_OPEN"
              /\ cb'.success_count = 0
              /\ AdmittedStep
        /\ \A c \in Callers :
             (callers[c].pc = "admit_io" /\ callers'[c].pc # "admit_io")
             => /\ callers'[c].pc = "running"
                /\ hist'.invocations = hist.invocations + 1 ]_vars

\* the call that moved the breaker to HALF_OPEN is running its wrapped call
C3_Witness ==
    /\ cb.state = "HALF_OPEN"
    /\ cb.stats.state_changes = 2
    /\ cb.state_changed_at >= config.recovery_timeout
    /\ \E c \in Callers :
         /\ callers[c].pc = "running"
         /\ callers[c].start = cb.state_changed_at

\* C4: in HALF_OPEN any recorded failure moves the breaker to OPEN.
C4_HalfOpenFailureReopens ==
    [][ (FailureRecorded /\ cb.state = "HALF_OPEN") => cb'.state = "OPEN" ]_vars

\* C5: in HALF_OPEN the success that completes success_threshold successes
\* in a row moves the breaker to CLOSED with failure_count 0 and
\* success_count 0.
C5_ProbesClose ==
    [][ (/\ SuccessRecorded
         /\ cb.state = "HALF_OPEN"
         /\ hist.probes + 1 >= config.success_threshold)
        => /\ cb'.state = "CLOSED"
           /\ cb'.failure_count = 0
           /\ cb'.success_count = 0 ]_vars

\* two successes in a row closed the breaker after one trip
C5_Witness ==
    /\ cb.state = "CLOSED"
    /\ cb.stats.state_changes = 3
    /\ config.success_threshold = 2
    /\ hist.probes = 2
    /\ cb.failure_count = 0

\* a HALF_OPEN breaker with no call in flight whose probe quota is used up:
\* it rejects every call, and only a recorded outcome or an operator could
\* change its state
Stuck ==
    /\ cb.state = "HALF_OPEN"
    /\ \A c \in Callers : callers[c].pc = "idle"
    /\ _should_reject_request(cb, now).reject

\* without the operator, a stuck breaker stays stuck whatever happens next:
\* calls arrive and are rejected, time passes
StuckForever == [][ Stuck => Stuck' ]_vars

\* C6: no state other than FORCED_OPEN is terminal: from every reachable
\* state the breaker can still come to CLOSED through calls, time and
\* successes alone.  A stuck state is one it never leaves (StuckForever), so
\* the claim requires that none is reachable.
C6_NoTerminalState == ~Stuck

AutomaticEdges ==
    { <<"CLOSED", "OPEN">>, <<"OPEN", "HALF_OPEN">>,
      <<"HALF_OPEN", "CLOSED">>, <<"HALF_OPEN", "OPEN">> }

\* C7: every change of state not made by force_open or force_close is one
\* of CLOSED->OPEN, OPEN->HALF_OPEN, HALF_OPEN->CLOSED, HALF_OPEN->OPEN.
C7_OnlyDefinedEdges ==
    [][ (cb'.state # cb.state /\ ~ForceOpenStep /\ ~ForceCloseStep)
        => <<cb.state, cb'.state>> \in AutomaticEdges ]_vars

\* the breaker tripped, moved to HALF_OPEN on a call after the recovery
\* timeout and tripped again on the failure of that call, with no action
\* of the operator
C7_Witness ==
    /\ cb.state = "OPEN"
    /\ manual = [opens |-> 0, closes |-> 0]
    /\ cb.stats.state_changes = 3
    /\ cb.stats.failed_requests = 2

\* C8: force_open leaves the breaker FORCED_OPEN whatever state it was in;
\* a call that meets it FORCED_OPEN is rejected without starting the wrapped
\* call, at any time; and nothing but force_close takes it out of
\* FORCED_OPEN.
C8_ForcedOpenRejectsAll ==
    [][ /\ ForceOpenStep => cb'.state = "FORCED_OPEN"
        /\ (CallStep /\ cb.state = "FORCED_OPEN")
             => /\ RejectedStep
                /\ NotInvoked
                /\ cb'.stats.rejected_requests = cb.stats.rejected_requests + 1
        /\ (cb.state = "FORCED_OPEN" /\ ~ForceCloseStep)
             => cb'.state = "FORCED_OPEN" ]_vars

\* forced open out of HALF_OPEN, the breaker has rejected a call and the
\* recovery timeout has passed since
C8_Witness ==
    /\ cb.state = "FORCED_OPEN"
    /\ manual = [opens |-> 1, closes |-> 0]
    /\ cb.stats.state_changes = 3
    /\ hist.rejected_in = "FORCED_OPEN"
    /\ now - cb.state_changed_at >= config.recovery_timeout

\* C9: force_close takes a FORCED_OPEN breaker to CLOSED with failure_count
\* 0 and success_count 0, and a call that meets the breaker as force_close
\* left it is admitted.
C9_ForceCloseReopensTraffic ==
    [][ /\ (ForceCloseStep /\ cb.state = "FORCED_OPEN")
             => /\ cb'.state = "CLOSED"
                /\ cb'.failure_count = 0
                /\ cb'.success_count = 0
                /\ ~_should_reject_request(cb', now').reject
        /\ (CallStep /\ cb.state = "CLOSED") => AdmittedStep ]_vars

\* after force_open, a rejection and force_close, both callers are running
\* a wrapped call: one of them was admitted after force_close
C9_Witness ==
    /\ cb.state = "CLOSED"
    /\ manual = [opens |-> 1, closes |-> 1]
    /\ cb.stats.state_changes = 2
    /\ hist.rejected_in = "FORCED_OPEN"
    /\ calls = 3
    /\ \A c \in Callers : callers[c].pc = "running"

\* C10: a rejected call adds 1 to rejected_requests and changes nothing else
\* of the breaker: state, counts, the other counters, both windows, the
\* tenant map, the thresholds; and the wrapped call is not started.
C10_RejectionChangesOnlyItsCounter ==
    [][ RejectedStep
        => /\ cb' = [cb EXCEPT !.stats.rejected_requests = @ + 1]
           /\ NotInvoked ]_vars

\* a HALF_OPEN breaker that holds outcomes in its windows and a tenant in
\* its map has rejected a call
C10_Witness ==
    /\ cb.state = "HALF_OPEN"
    /\ hist.rejected_in = "HALF_OPEN"
    /\ cb.stats.rejected_requests >= 1
    /\ cb.request_window # <<>>
    /\ DOMAIN cb.school_metrics # {}

\* the calls admitted in the current HALF_OPEN episode whose wrapped call is
\* running (recovery_timeout > 0, so a call admitted before the episode
\* started before state_changed_at)
ProbesInFlight ==
    {c \in Callers : callers[c].pc = "running"
                     /\ callers[c].start >= cb.state_changed_at}

\* C11: while HALF_OPEN, no more than test_request_count of the calls
\* admitted in the episode are in flight at the same time.
C11_ProbesThrottled ==
    cb.state = "HALF_OPEN" => Cardinality(ProbesInFlight) <= config.test_request_count

\* caller c's wrapped call raises in this step and the failure is recorded
RaisesIn(c) ==
    /\ callers[c].pc = "running"
    /\ BeforeDeadline(c)
    /\ callers'[c].pc # "running"
    /\ FailureRecorded

\* C17: when the wrapped call raises, the failure is recorded whole
\* (failed_requests and failure_count +1, success_count 0, the outcome at the
\* end of the window, the trip conditions evaluated), the wrapped call is
\* not started again, and the caller then gets the error the call raised.
C17_ErrorRecordedThenReraised ==
    [][ \A c \in Callers :
          /\ RaisesIn(c)
               => /\ cb'.failure_count = cb.failure_count + 1
                  /\ cb'.success_count = 0
                  /\ cb'.request_window =
                       DequeAppend(cb.request_window,
                           RequestMetrics(now, now - callers[c].start, FALSE,
                                          "error_rate", callers[c].school),
                           config.window_size)
                  /\ (FailureCountCondition(cb') /\ TripsFrom(cb.state))
                       => cb'.state = "OPEN"
                  /\ cb'.state # cb.state => cb'.state = "OPEN"
                  /\ hist'.invocations = hist.invocations
                  /\ \/ callers'[c].pc = "idle" /\ hist'.result = "error"
                     \/ callers'[c].pc = "failure_io"
          /\ (callers[c].pc = "failure_io" /\ callers'[c].pc # "failure_io")
               => /\ callers'[c].pc = "idle"
                  /\ hist'.result = Reraised(callers[c].failure_type)
                  /\ hist'.invocations = hist.invocations
                  /\ cb'.stats.failed_requests = cb.stats.failed_requests
                  /\ cb'.failure_count = cb.failure_count ]_vars

\* a call's error came back to its caller after the failure that tripped
\* the breaker was recorded and the store write was done; every call so far
\* started its wrapped call once
C17_Witness ==
    /\ hist.result = "error"
    /\ env.connected
    /\ cb.state = "OPEN"
    /\ cb.stats.state_changes = 1
    /\ cb.failure_count = cb.stats.failed_requests
    /\ hist.invocations = calls
    /\ \A c \in Callers : callers[c].pc = "idle"

\* C19: recording a failure sets success_count to 0; recording a success
\* lowers failure_count by 1, not below 0, except that the success which
\* closes a HALF_OPEN breaker sets it to 0.
C19_CountsDecayAndReset ==
    [][ /\ FailureRecorded => cb'.success_count = 0
        /\ SuccessRecorded
             => cb'.failure_count =
                  IF cb.state = "HALF_OPEN" /\ cb'.state = "CLOSED"
                  THEN 0
                  ELSE Max(0, cb.failure_count - 1) ]_vars

\* after two failures a success left failure_count at 1, with the breaker
\* not closed by it
C19_Witness ==
    /\ cb.stats.failed_requests = 2
    /\ cb.stats.successful_requests = 1
    /\ cb.failure_count = 1
    /\ cb.success_count = 1
    /\ cb.state # "CLOSED"

\* the newest entries of the window w followed by x, at most cap of them
NewestOf(w, x, cap) ==
    LET all == Append(w, x)
    IN SubSeq(all, Max(1, Len(all) - cap + 1), Len(all))

\* C12: the recording of an outcome is atomic with respect to the recording
\* of every other outcome: a failure recorded while the recording of a success
\* is still under way (it has closed the breaker and not yet recalibrated the
\* thresholds) leaves the breaker in the state it would have after the
\* success had been recorded completely first.
C12_RecordingsSerialized ==
    [][ \A c \in Callers, d \in Callers :
          ( /\ callers[d].pc = "success_io"
            /\ callers[c].pc = "running"
            /\ callers'[c].pc # "running"
            /\ FailureRecorded )
          => \A b \in RecordSuccessTail(cb, now) :
               RecordFailureHead(b, now,
                   IF BeforeDeadline(c) THEN "error_rate" ELSE "timeout",
                   now - callers[c].start, callers[c].school).state = cb'.state
      ]_vars

\* C13: the outcome window never holds more than window_size entries and the
\* latency window never more than 50, and every recorded outcome leaves each
\* window holding the newest entries in recording order, the one just
\* recorded last and the oldest gone when the window was full.
C13_WindowsBoundedFifo ==
    [][ /\ Len(cb'.request_window) <= config.window_size
        /\ Len(cb'.latency_window) <= LatencyWindowMaxlen
        /\ (SuccessRecorded \/ FailureRecorded) =>
             \E c \in Callers :
               LET duration == now - callers[c].start
                   entry == RequestMetrics(now, duration, SuccessRecorded,
                                IF SuccessRecorded THEN "none"
                                ELSE IF BeforeDeadline(c) THEN "error_rate"
                                ELSE "timeout",
                                callers[c].school)
               IN /\ callers[c].pc = "running"
                  /\ callers'[c].pc # "running"
                  /\ cb'.request_window =
                       NewestOf(cb.request_window, entry, config.window_size)
                  /\ cb'.latency_window =
                       NewestOf(cb.latency_window, duration, LatencyWindowMaxlen)
      ]_vars

\* both windows are full, warm-up entries have left them, the latency window
\* starts with the durations of warm-up calls 3 and 4 and ends with the
\* last warm-up call and the three calls made since, the newest a failure
C13_Witness ==
    /\ Len(cb.request_window) = config.window_size
    /\ Len(cb.latency_window) = LatencyWindowMaxlen
    /\ cb.stats.total_requests = WarmUp + 3
    /\ cb.latency_window[1] = 1
    /\ cb.latency_window[2] = 0
    /\ cb.latency_window[LatencyWindowMaxlen - 3] = 1
    /\ cb.request_window[config.window_size - 3].timestamp = 1
    /\ cb.request_window[config.window_size - 1].success
    /\ ~cb.request_window[config.window_size].success

\* C14: the adaptive failure threshold is within 2..10, the adaptive
\* error-rate threshold within 0.2..0.8 (in percent) and the adaptive latency
\* threshold within 1.0..30.0 seconds.
C14_ThresholdsWithinBounds ==
    /\ cb.adaptive_failure_threshold \in 2..10
    /\ cb.adaptive_error_rate_threshold \in 20..80
    /\ cb.adaptive_latency_threshold \in LatScale..(30 * LatScale)

CreateStep == hist'.creates = hist.creates + 1

\* C15: a breaker's state persisted and loaded into a fresh breaker with
\* the same config gives the status of the original: get_status of the
\* loaded breaker equals get_status of the breaker as it is.
C15_SnapshotRoundTrip ==
    env.connected
    => get_status(initialize(config, _persist_state(cb, store, TRUE).store,
                             now, TRUE))
         = get_status(cb)

\* the breaker a step leaves when caller c's call takes it, whatever the
\* store writes of the step do
StepResults(c) ==
    LET duration == now - callers[c].start
        r == _should_reject_request(cb, now)
        ok_head == RecordSuccessHead(cb, now, duration, callers[c].school)
        failure_type == IF BeforeDeadline(c) THEN "error_rate" ELSE "timeout"
        bad_head == RecordFailureHead(cb, now, failure_type, duration,
                                      callers[c].school)
    IN [call |-> IF r.reject THEN RejectRequest(r.b) ELSE r.b,
        ok |-> IF Suspends(cb, ok_head) THEN {ok_head}
               ELSE RecordSuccessTail(ok_head, now),
        failed |-> IF Suspends(cb, bad_head) THEN bad_head
                   ELSE RecordFailureTail(bad_head, now, failure_type, duration),
        ok_resumed |-> RecordSuccessTail(cb, now),
        failed_resumed |-> RecordFailureTail(cb, now, callers[c].failure_type,
                                             callers[c].duration)]

\* C18: a failed snapshot write, publish or event-log insert is swallowed:
\* no operation ends with the error of a store, a call that ends gives its
\* caller its own result or error, and the breaker every step leaves is the
\* one the step computes from the breaker and the call alone.
C18_WriteFailuresSwallowed ==
    [][ /\ hist'.result # "store_error"
        /\ \A w \in Writes : ~TransitionWrites(cb', store, w).raised
        /\ \A ok \in WriteOutcomes : ~_persist_state(cb', store, ok).raised
        /\ \A c \in Callers :
             LET e == StepResults(c)
             IN /\ (CallStep /\ callers[c].pc = "idle" /\ callers'[c].pc # "idle")
                     => cb' = e.call
                /\ RejectedStep => (cb' = e.call /\ hist'.result = "rejected")
                /\ (callers[c].pc = "running" /\ callers'[c].pc # "running"
                      /\ SuccessRecorded)
                     => /\ cb' \in e.ok
                        /\ callers'[c].pc = "idle" => hist'.result = "ok"
                /\ (callers[c].pc = "running" /\ callers'[c].pc # "running"
                      /\ FailureRecorded)
                     => /\ cb' = e.failed
                        /\ callers'[c].pc = "idle"
                             => hist'.result =
                                  Reraised(IF BeforeDeadline(c) THEN "error_rate"
                                           ELSE "timeout")
                /\ (callers[c].pc = "success_io" /\ callers'[c].pc = "idle")
                     => (cb' \in e.ok_resumed /\ hist'.result = "ok")
                /\ (callers[c].pc = "failure_io" /\ callers'[c].pc = "idle")
                     => /\ cb' = e.failed_resumed
                        /\ hist'.result = Reraised(callers[c].failure_type)
      ]_vars

\* the second failure tripped the breaker and its caller got the error of
\* its call, while the publish and every snapshot write so far failed: the
\* stores hold nothing
C18_Witness ==
    /\ env.flaky
    /\ cb.state = "OPEN"
    /\ cb.stats.state_changes = 1
    /\ cb.stats.failed_requests = 2
    /\ hist.result = "error"
    /\ \A c \in Callers : callers[c].pc = "idle"
    /\ store = NoStore

\* C20: create under a name that is registered leaves the registry mapping
\* the name to the same breaker instance, with its state, counts, counters
\* and window as they were.
C20_CreateIdempotent ==
    [][ (CreateStep /\ BreakerName \in DOMAIN circuit_breakers)
        => /\ circuit_breakers' = circuit_breakers
           /\ cb'.state = cb.state
           /\ cb'.failure_count = cb.failure_count
           /\ cb'.success_count = cb.success_count
           /\ cb'.stats = cb.stats
           /\ cb'.request_window = cb.request_window ]_vars

\* the schools of breaker b whose last outcome is a failure less than five
\* minutes before second t
SchoolsFailing(b, t) ==
    {s \in DOMAIN b.school_metrics :
        /\ ~b.school_metrics[s].success
        /\ t - b.school_metrics[s].timestamp < SchoolRecentSeconds}

\* at least three schools are tracked and more than half of them are failing
MostSchoolsFailing(b, t) ==
    /\ Cardinality(DOMAIN b.school_metrics) >= MinSchools
    /\ 2 * Cardinality(SchoolsFailing(b, t)) > Cardinality(DOMAIN b.school_metrics)

NoOtherCondition(b) ==
    /\ ~FailureCountCondition(b)
    /\ ~ErrorRateCondition(b)
    /\ ~LatencyCondition(b)
    /\ ~PredictionCondition(b)

\* C16 as stated: a failure recorded while CLOSED or HALF_OPEN, with at least
\* three schools tracked and more than half of them failing within the last
\* five minutes, trips the breaker to OPEN.
C16_SchoolRuleTrips ==
    [][ (/\ FailureRecorded
         /\ cb.state \in {"CLOSED", "HALF_OPEN"}
         /\ MostSchoolsFailing(cb', now))
        => cb'.state = "OPEN" ]_vars

\* C16 amended: with config.school_specific set, such a failure trips the
\* breaker to OPEN even though the failure-count, error-rate and latency
\* conditions are unsatisfied; and with half of the schools or fewer failing
\* (or fewer than three tracked) and no other condition satisfied, the
\* failure leaves the state as it is.
C16_SchoolRuleTripsWhenEnabled ==
    [][ (FailureRecorded /\ cb.state \in {"CLOSED", "HALF_OPEN"})
        => /\ (config.school_specific /\ MostSchoolsFailing(cb', now))
                => cb'.state = "OPEN"
           /\ (~MostSchoolsFailing(cb', now) /\ NoOtherCondition(cb'))
                => cb'.state = cb.state ]_vars

\* the rule tripped the breaker with two of three schools failing and
\* failure_count 1 below the threshold, no other condition satisfied
C16_Witness ==
    /\ config.school_specific
    /\ cb.state = "OPEN"
    /\ cb.stats.state_changes = 1
    /\ cb.failure_count = 1
    /\ NoOtherCondition(cb)
    /\ Cardinality(DOMAIN cb.school_metrics) = 3
    /\ Cardinality(SchoolsFailing(cb, now)) = 2

\* the states the other breaker can be in, registered or not
OtherStates == UNION { [S -> States] : S \in SUBSET OtherBreakers }

\* C21: health_check_all reports unhealthy exactly when at least one
\* registered breaker is OPEN; a registry of CLOSED, HALF_OPEN and
\* FORCED_OPEN breakers, or an empty one, is healthy.
C21_UnhealthyIffSomeOpen ==
    \A others \in OtherStates :
        health_check_all(Registry(others))
          <=> ~(\E name \in DOMAIN Registry(others) :
                   Registry(others)[name] = "OPEN")

\* the registered breaker is forced open, another breaker is HALF_OPEN, and
\* the registry is healthy
C21_Witness ==
    /\ BreakerName \in DOMAIN circuit_breakers
    /\ cb.state = "FORCED_OPEN"
    /\ health_check_all(Registry([name \in {"kitchen_service_cb"} |-> "HALF_OPEN"]))

----------------------------------------------------------------------------
(* Static configurations outside the documented ranges.  __init__ copies   *)
(* the configuration without a check; the one construction that fails is   *)
(* deque(maxlen=window_size) for a negative window_size (ValueError).      *)

MaxDegenerateCalls == 3
MaxDegenerateTime == 2

\* __init__ returns a breaker for cfg
Constructs(cfg) == cfg.window_size >= 0

DegenerateConfigs ==
    { [failure_threshold |-> 2,
       recovery_timeout |-> 1,
       test_request_count |-> 1,
       success_threshold |-> 1,
       timeout_duration |-> 1,
       error_rate_threshold |-> 50,
       latency_threshold |-> 5 * LatScale,
       window_size |-> ws,
       adaptive_thresholds |-> TRUE,
       ai_prediction |-> FALSE,
       school_specific |-> FALSE] : ws \in {-1, 0, 1} }

InitDegenerate == Start({cfg \in DegenerateConfigs : Constructs(cfg)})

DegenerateCall(c) == CallWithin(c, MaxDegenerateCalls)

DegenerateTick == TickWithin(MaxDegenerateTime)

NextDegenerate ==
    \/ \E c \in Callers : DegenerateCall(c)
    \/ Progress
    \/ DegenerateTick

SpecDegenerate == InitDegenerate /\ [][NextDegenerate]_vars

\* C22: a breaker whose configuration has a window_size of 0 or less does
\* not exist: it has admitted no call, started no wrapped call and recorded
\* no outcome.
C22_InvalidConfigNeverServes ==
    config.window_size <= 0 =>
        /\ hist.invocations = 0
        /\ cb.stats.total_requests = 0
        /\ \A c \in Callers : callers[c].pc = "idle"

\* a recorded failure trips the breaker in this step
TripStep ==
    /\ FailureRecorded
    /\ cb'.stats.state_changes = cb.stats.state_changes + 1
    /\ cb'.state = "OPEN"

\* C23: the reason of a trip names the first satisfied condition in the
\* order failure count, error rate, latency, prediction, tenant rule.
C23_ReasonIsFirstCondition ==
    [][TripStep => hist'.reason = trip_reason_first(cb', now)]_vars

\* C24 as stated: a recorded failure satisfies the failure-count condition
\* exactly when the failures recorded in a row ending with it, no success
\* in between, number at least the adaptive failure threshold.
C24_ConditionCountsConsecutiveFailures ==
    [][FailureRecorded =>
         (FailureCountCondition(cb') <=>
            hist'.streak >= cb'.adaptive_failure_threshold)]_vars

\* C24, amended: the condition compares failure_count, which a failure
\* raises by one and a success lowers by one, with the adaptive failure
\* threshold.  A failure recorded while CLOSED or HALF_OPEN that takes the
\* count to the threshold trips the breaker; a trip that names the failure
\* count alone happened at a count of at least the threshold; and a run of
\* failures as long as the threshold always has the count at the threshold.
C24_ConditionComparesDecayingCount ==
    [][FailureRecorded /\ cb.state \in {"CLOSED", "HALF_OPEN"} =>
         /\ cb.failure_count + 1 >= cb.adaptive_failure_threshold => TripStep
         /\ TripStep /\ hist'.reason = "failure_count" =>
              cb.failure_count + 1 >= cb.adaptive_failure_threshold
         /\ hist'.streak >= cb.adaptive_failure_threshold =>
              cb.failure_count + 1 >= cb.adaptive_failure_threshold]_vars

\* a trip by the failure count on a failure that follows a success: the
\* run of failures is shorter than the threshold
C24_Witness ==
    /\ cb.state = "OPEN"
    /\ cb.stats.last_trip_time = now
    /\ cb.last_failure_time = now
    /\ hist.reason = "failure_count"
    /\ hist.streak >= 1
    /\ hist.streak < cb.adaptive_failure_threshold
    /\ cb.failure_count >= cb.adaptive_failure_threshold

----------------------------------------------------------------------------
(* The error-rate condition: a breaker with a short window that has served *)
(* 7 successful calls (3 more fill the 10 samples the condition needs) and *)
(* one with a window of 50 that has served 25 (the window is longer than   *)
(* the 20 outcomes the rate is taken over).  error_rate_threshold 0.15 is  *)
(* the value main() configures for kitchen_service_cb.                     *)

MaxRateCalls == 4
MaxRateTime == 2
ShortWindow == 12
ShortWarmUp == 7
LongWarmUp == 25

RateWarmUp(cfg) == IF cfg.window_size = ShortWindow THEN ShortWarmUp ELSE LongWarmUp

RateConfigs ==
    { [failure_threshold |-> 4,
       recovery_timeout |-> 1,
       test_request_count |-> 1,
       success_threshold |-> 1,
       timeout_duration |-> 1,
       error_rate_threshold |-> 15,
       latency_threshold |-> 5 * LatScale,
       window_size |-> ws,
       adaptive_thresholds |-> TRUE,
       ai_prediction |-> FALSE,
       school_specific |-> FALSE] : ws \in {ShortWindow, MinAdaptiveSamples} }

InitRate ==
    /\ config \in RateConfigs
    /\ env \in Envs
    /\ cb = Warmed(config, RateWarmUp(config))
    /\ now = 1
    /\ callers = [c \in Callers |-> IdleCaller]
    /\ calls = RateWarmUp(config)
    /\ manual = [opens |-> 0, closes |-> 0]
    /\ hist = [run |-> 0, probes |-> 0, invocations |-> RateWarmUp(config),
               rejected_in |-> "none", result |-> "ok", creates |-> 0,
               streak |-> 0, reason |-> "none"]
    /\ store = _persist_state(cb, NoStore, TRUE).store
    /\ circuit_breakers =
         [name \in (IF env.connected THEN {BreakerName} ELSE {}) |-> 1]

RateCall(c) == CallWithin(c, RateWarmUp(config) + MaxRateCalls)

RateTick == TickWithin(MaxRateTime)

NextRate ==
    \/ \E c \in Callers : RateCall(c)
    \/ Progress
    \/ RateTick

SpecRate == InitRate /\ [][NextRate]_vars

\* the outcomes the error rate is taken over, in window w
RateSample(w) == LastN(w, Min(ErrorRateLookback, Len(w)))

\* C25: a failure recorded while CLOSED or HALF_OPEN trips the breaker when
\* the window, the failure included, holds at least 10 outcomes and the
\* failures among its most recent min(20, length) outcomes, divided by that
\* number, reach the adaptive error-rate threshold; with fewer than 10
\* outcomes in the window and the failure count below its threshold (no
\* other condition is satisfied here) the failure does not trip it.
C25_ErrorRateTrips ==
    [][FailureRecorded /\ cb.state \in {"CLOSED", "HALF_OPEN"} =>
         LET w == cb'.request_window
             sample == RateSample(w)
         IN /\ ( /\ Len(w) >= 10
                 /\ CountFailed(sample) * 100
                      >= cb.adaptive_error_rate_threshold * Len(sample) )
                => TripStep
            /\ ( /\ Len(w) < 10
                 /\ cb.failure_count + 1 < cb.adaptive_failure_threshold )
                => /\ cb'.state = cb.state
                   /\ cb'.stats.state_changes = cb.stats.state_changes]_vars

\* tripped by the error rate alone, the failure count below its threshold
C25_Witness ==
    /\ cb.state = "OPEN"
    /\ cb.stats.last_trip_time = now
    /\ hist.reason = "error_rate"
    /\ cb.failure_count < cb.adaptive_failure_threshold
    /\ Len(cb.request_window) >= 10
    /\ CountFailed(RateSample(cb.request_window)) * 100
         >= cb.adaptive_error_rate_threshold * Len(RateSample(cb.request_window))

\* a transition of the breaker ran in this step
TransitionStep ==
    /\ ~CreateStep
    /\ cb'.stats.state_changes = cb.stats.state_changes + 1

\* C26: with the stores reachable, every state transition publishes one
\* transition event on the notification channel and adds one record to the
\* event log.
C26_TransitionsNotified ==
    [][TransitionStep /\ env.connected /\ ~env.flaky =>
         /\ store'.published = store.published + 1
         /\ store'.logged = store.logged + 1]_vars

\* an operation that changes the breaker finishes in this step: a call is
\* rejected, a call's outcome is recorded to the end, or a force action ran
OperationCompletes ==
    /\ ~CreateStep
    /\ cb' # cb
    /\ \/ RejectedStep
       \/ \E c \in Callers : callers[c].pc # "idle" /\ callers'[c].pc = "idle"
       \/ ForceOpenStep
       \/ ForceCloseStep

\* C27: with the store reachable, after every completed operation that
\* changes the breaker's state or counters the stored snapshot equals the
\* state, state_changed_at, counters, adaptive thresholds and prediction in
\* memory.
C27_SnapshotCurrent ==
    [][OperationCompletes /\ env.connected /\ ~env.flaky =>
         store'.snapshot = <<Snapshot(cb')>>]_vars

\* the number of adaptive thresholds this step changed
ThresholdsChanged ==
    (IF cb'.adaptive_failure_threshold # cb.adaptive_failure_threshold THEN 1 ELSE 0)
    + (IF cb'.adaptive_error_rate_threshold # cb.adaptive_error_rate_threshold
       THEN 1 ELSE 0)
    + (IF cb'.adaptive_latency_threshold # cb.adaptive_latency_threshold
       THEN 1 ELSE 0)

\* C28: adaptive_adjustments goes up by one for each threshold change
\* applied: by k in a step that changes k of the three adaptive thresholds,
\* by nothing in a step that changes none.
C28_AdjustmentsCountChanges ==
    [][cb'.stats.adaptive_adjustments
         = cb.stats.adaptive_adjustments + ThresholdsChanged]_vars

\* _update_adaptive_thresholds ran past its guard in this step: a success
\* was recorded to its end with 50 outcomes in the window
Recalibration ==
    /\ config.adaptive_thresholds
    /\ Len(cb'.request_window) >= MinAdaptiveSamples
    /\ \E c \in Callers :
         /\ callers'[c].pc = "idle"
         /\ \/ callers[c].pc = "running" /\ SuccessRecorded
            \/ callers[c].pc = "success_io"

\* a window of n outcomes, all successes or all failures
Filled(n, success) ==
    [i \in 1..n |->
        RequestMetrics(1, 0, success, IF success THEN "none" ELSE "error_rate", NoSchool)]

\* the windows a recalibration can find: 50 outcomes up to a full window
RecalibrationWindows ==
    { Filled(n, success) :
        n \in MinAdaptiveSamples..config.window_size, success \in BOOLEAN }

\* which case of the volume rule a traffic volume falls under
VolumeCase(volume) ==
    IF volume > 40 THEN "high" ELSE IF volume < 10 THEN "low" ELSE "unchanged"

\* C29: on a recalibration the adaptive failure threshold follows the volume
\* rule (configured threshold + 2, at most 10, for a volume above 40;
\* configured threshold - 1, at least 2, for a volume below 10; otherwise
\* the configured threshold), applied if it differs from the current one by
\* at least 1, and each of the three cases occurs for some window contents.
C29_VolumeRule ==
    [][Recalibration =>
         LET new == failure_threshold_for(traffic_volume(cb'.request_window))
         IN /\ cb'.adaptive_failure_threshold =
                 IF Abs(new - cb.adaptive_failure_threshold) >= 1
                 THEN new ELSE cb.adaptive_failure_threshold
            /\ \A case \in {"high", "low", "unchanged"} :
                 \E w \in RecalibrationWindows :
                    VolumeCase(traffic_volume(w)) = case]_vars

\* the part of C29 that the code keeps: the rule, and the one case that
\* occurs
C29_HighVolumeOnly ==
    [][Recalibration =>
         LET new == failure_threshold_for(traffic_volume(cb'.request_window))
         IN /\ cb'.adaptive_failure_threshold =
                 IF Abs(new - cb.adaptive_failure_threshold) >= 1
                 THEN new ELSE cb.adaptive_failure_threshold
            /\ \A w \in RecalibrationWindows :
                 VolumeCase(traffic_volume(w)) = "high"]_vars

----------------------------------------------------------------------------
(* The breaker in service at different times of the week: the wall clock   *)
(* at construction is a weekday (Wednesday) or a Saturday, at 10:00, 17:00 *)
(* or 20:00.                                                               *)

MaxClockCalls == 3
MaxClockTime == 2

ClockEnvs ==
    { [connected |-> TRUE, flaky |-> FALSE, start_hour |-> h, start_weekday |-> d] :
        h \in {10, 17, 20}, d \in {2, 5} }

ClockConfigs == { cfg \in WarmConfigs : cfg.error_rate_threshold = 50 }

InitClock ==
    /\ config \in ClockConfigs
    /\ env \in ClockEnvs
    /\ cb = Warmed(config, WarmUp)
    /\ now = 1
    /\ callers = [c \in Callers |-> IdleCaller]
    /\ calls = WarmUp
    /\ manual = [opens |-> 0, closes |-> 0]
    /\ hist = [run |-> 0, probes |-> 0, invocations |-> WarmUp,
               rejected_in |-> "none", result |-> "ok", creates |-> 0,
               streak |-> 0, reason |-> "none"]
    /\ store = _persist_state(cb, NoStore, TRUE).store
    /\ circuit_breakers = [name \in {BreakerName} |-> 1]

ClockCall(c) == CallWithin(c, WarmUp + MaxClockCalls)

ClockTick == TickWithin(MaxClockTime)

NextClock ==
    \/ \E c \in Callers : ClockCall(c)
    \/ Progress
    \/ ClockTick

SpecClock == InitClock /\ [][NextClock]_vars

\* the local time of day at second t, in seconds since midnight
TimeOfDay(t) == (env.start_hour * 3600 + t) % 86400

\* a weekday between 09:00 and 17:00
BusinessHours(t) ==
    /\ Weekday(t) < 5
    /\ 9 * 3600 <= TimeOfDay(t)
    /\ TimeOfDay(t) <= 17 * 3600

\* C30: a recalibration raises the adaptive error-rate threshold by 0.10,
\* to at most 0.8, exactly when the local time is on a weekday between 09:00
\* and 17:00, and lowers it by 0.05, to at least 0.2, at every other time; a
\* change of less than 0.05 is not applied.
C30_ErrorRateFollowsBusinessHours ==
    [][Recalibration =>
         LET old == cb.adaptive_error_rate_threshold
             raised == Min(old + 10, 80)
             lowered == Max(old - 5, 20)
         IN IF BusinessHours(now)
            THEN cb'.adaptive_error_rate_threshold =
                    IF raised - old >= 5 THEN raised ELSE old
            ELSE cb'.adaptive_error_rate_threshold \in
                    IF old - lowered >= 5 THEN {lowered, old} ELSE {old}]_vars

----------------------------------------------------------------------------
(* A breaker started on a service with a failure history: initialize loads  *)
(* the rows of the last 7 days, newest first (ORDER BY timestamp DESC), and *)
(* files each duration under its failure kind and hour.                     *)

MaxHistoryCalls == 3
MaxHistoryTime == 2
HistoryHour == 15

\* a row of circuit_breaker_failures
HistoryRow(failure_type, hour, duration) ==
    [failure_type |-> failure_type, hour |-> hour, duration |-> duration]

\* what the table can hold for the service: nothing, three failures of
\* 0, 0 and 1 seconds, or one failure more than a bucket's cap, all at
\* HistoryHour
Histories ==
    { [i \in 1..n |-> HistoryRow("timeout", HistoryHour, IF i = n THEN 1 ELSE 0)] :
        n \in {0, 3, PatternCap + 1} }

\* _load_historical_patterns: every row's duration is appended to the
\* bucket of its failure kind and hour, in the order of the rows
_load_historical_patterns(b, rows) ==
    LET KeyOf(row) == <<row.failure_type, row.hour>>
        keys == { KeyOf(rows[i]) : i \in DOMAIN rows }
        RowsOf(key) == SelectSeq(rows, LAMBDA row : KeyOf(row) = key)
        loaded(key) == [i \in 1..Len(RowsOf(key)) |-> RowsOf(key)[i].duration]
    IN [b EXCEPT !.failure_patterns =
          [key \in DOMAIN b.failure_patterns \cup keys |->
             (IF key \in DOMAIN b.failure_patterns
              THEN b.failure_patterns[key] ELSE <<>>)
             \o (IF key \in keys THEN loaded(key) ELSE <<>>)]]

\* started at 01:00 or at 15:00
HistoryEnvs ==
    { [connected |-> TRUE, flaky |-> FALSE, start_hour |-> h, start_weekday |-> 2] :
        h \in {1, HistoryHour} }

HistoryConfigs ==
    { [failure_threshold |-> 3,
       recovery_timeout |-> 1,
       test_request_count |-> 1,
       success_threshold |-> 1,
       timeout_duration |-> 1,
       error_rate_threshold |-> 50,
       latency_threshold |-> 5 * LatScale,
       window_size |-> 3,
       adaptive_thresholds |-> TRUE,
       ai_prediction |-> TRUE,
       school_specific |-> FALSE] }

InitHistory ==
    /\ config \in HistoryConfigs
    /\ env \in HistoryEnvs
    /\ \E rows \in Histories :
         cb = _load_historical_patterns(initialize(config, NoStore, 0, TRUE), rows)
    /\ now = 0
    /\ callers = [c \in Callers |-> IdleCaller]
    /\ calls = 0
    /\ manual = [opens |-> 0, closes |-> 0]
    /\ hist = [run |-> 0, probes |-> 0, invocations |-> 0, rejected_in |-> "none",
               result |-> "none", creates |-> 0, streak |-> 0, reason |-> "none"]
    /\ store = NoStore
    /\ circuit_breakers = [name \in {BreakerName} |-> 1]

HistoryCall(c) == CallWithin(c, MaxHistoryCalls)

HistoryTick == TickWithin(MaxHistoryTime)

NextHistory ==
    \/ \E c \in Callers : HistoryCall(c)
    \/ Progress
    \/ HistoryTick

SpecHistory == InitHistory /\ [][NextHistory]_vars

\* C31: every (failure kind, hour) bucket of the predictor holds at most 100
\* durations, right after the load of the history too.
C31_BucketsCapped ==
    \A key \in DOMAIN cb.failure_patterns :
        Len(cb.failure_patterns[key]) <= PatternCap

\* _update_failure_patterns ran in this step: a failure was recorded to its
\* end, and the prediction with it
PredictionStep ==
    \E c \in Callers :
       /\ callers'[c].pc = "idle"
       /\ \/ callers[c].pc = "running" /\ FailureRecorded
          \/ callers[c].pc = "failure_io"
       /\ hist'.result # "store_error"

\* the buckets filed under hour h
SameHour(patterns, h) ==
    [key \in {k \in DOMAIN patterns : k[2] = h} |-> patterns[key]]

\* C32: the predicted failure probability is computed from the buckets of
\* the current hour only; durations filed under another hour contribute
\* nothing to it.
C32_PredictionFromCurrentHour ==
    [][PredictionStep =>
         cb'.predicted_failure_probability =
           _calculate_failure_probability(
               [cb' EXCEPT !.failure_patterns = SameHour(@, Hour(now))],
               now).predicted_failure_probability]_vars

\* 1 - std / (mean + 0.001) < 0 for the durations behind prediction p:
\* std > mean + 0.001, that is n * sumsq - sum^2 > (sum + n / 1000)^2
ConsistencyNegative(p) ==
    /\ p.n > 0
    /\ 1000000 * (p.n * p.sumsq - p.sum * p.sum)
         > (1000 * p.sum + p.n) * (1000 * p.sum + p.n)

\* C33: after every recorded failure the predicted failure probability lies
\* in [0, 1] (it is at most 1 by min(.., 1.0) on both factors; it is below
\* 0 exactly when the consistency factor is).
C33_ProbabilityInUnitInterval ==
    [][PredictionStep => ~ConsistencyNegative(cb'.predicted_failure_probability)]_vars

\* C34: the gauges in the stats follow the recorded outcomes: once an
\* outcome is recorded, stats.error_rate (in hundredths) is failed_requests
\* over total_requests, so it is above 0 once a failure is recorded.
C34_GaugesFollowOutcomes ==
    cb.stats.total_requests > 0 =>
        /\ cb.stats.error_rate * cb.stats.total_requests
             = 100 * cb.stats.failed_requests
        /\ cb.stats.failed_requests > 0 => cb.stats.error_rate > 0

\* C35: a HALF_OPEN breaker closes on the success of a probe: the call
\* whose success closes it was admitted during this HALF_OPEN episode, not
\* before it began.
C35_ClosesOnProbesOnly ==
    [][cb.state = "HALF_OPEN" /\ cb'.state = "CLOSED" /\ SuccessRecorded =>
         \E c \in Callers :
            /\ callers[c].pc = "running"
            /\ callers'[c].pc # "running"
            /\ callers[c].start >= cb.state_changed_at]_vars

\* C36: while the breaker is FORCED_OPEN, no step but force_close changes
\* its state: an outcome recorded for a call admitted before force_open, a
\* rejection and the passing of time leave state FORCED_OPEN, and only a
\* repeated force_open counts as a state change.
C36_ForcedOpenUntilForceClose ==
    [][cb.state = "FORCED_OPEN" /\ ~ForceCloseStep =>
         /\ cb'.state = "FORCED_OPEN"
         /\ ~ForceOpenStep =>
              /\ cb'.state_changed_at = cb.state_changed_at
              /\ cb'.stats.state_changes = cb.stats.state_changes
              /\ cb'.stats.recovery_time = cb.stats.recovery_time
              /\ cb'.stats.last_trip_time = cb.stats.last_trip_time]_vars

\* FORCED_OPEN for a recovery_timeout, with a failure and a success of
\* earlier calls recorded since force_open: the failure count is at its
\* threshold and the success count at success_threshold
C36_Witness ==
    /\ cb.state = "FORCED_OPEN"
    /\ now - cb.state_changed_at >= config.recovery_timeout
    /\ cb.last_failure_time > cb.state_changed_at
    /\ cb.failure_count >= cb.adaptive_failure_threshold
    /\ cb.success_count >= config.success_threshold
    /\ cb.stats.successful_requests >= 1

\* C37: recording a success never trips the breaker: from CLOSED or
\* HALF_OPEN the state after it is CLOSED or HALF_OPEN and no trip is
\* counted, whatever the error rate and the mean latency over the window.
C37_SuccessNeverTrips ==
    [][SuccessRecorded /\ cb.state \in {"CLOSED", "HALF_OPEN"} =>
         /\ cb'.state \in {"CLOSED", "HALF_OPEN"}
         /\ cb'.stats.last_trip_time = cb.stats.last_trip_time]_vars

\* a success was the last outcome recorded, after the last trip; the breaker
\* is not OPEN although the error rate over the window is at its threshold
C37_Witness ==
    /\ cb.state \in {"CLOSED", "HALF_OPEN"}
    /\ ErrorRateCondition(cb)
    /\ cb.request_window[Len(cb.request_window)].success
    /\ cb.stats.successful_requests > RateWarmUp(config)
    /\ cb.stats.last_trip_time # NoTime
    /\ cb.request_window[Len(cb.request_window)].timestamp > cb.stats.last_trip_time

\* an outcome is between its first and its last step of recording
MidRecording == \E c \in Callers : callers[c].pc \in {"success_io", "failure_io"}

\* C38: with a configured failure_threshold between 1 and 10 and no
\* snapshot restored, a CLOSED breaker with no outcome mid-recording has
\* failure_count below the adaptive failure threshold.
C38_ClosedBelowThreshold ==
    ( /\ config.failure_threshold \in 1..10
      /\ hist.creates = 0
      /\ cb.state = "CLOSED"
      /\ ~MidRecording )
    => cb.failure_count < cb.adaptive_failure_threshold

\* CLOSED one failure short of a threshold that the adaptive update raised
\* above the configured one, with the count at or above the configured one
C38_Witness ==
    /\ cb.state = "CLOSED"
    /\ ~MidRecording
    /\ cb.adaptive_failure_threshold > config.failure_threshold
    /\ cb.failure_count = cb.adaptive_failure_threshold - 1
    /\ cb.failure_count >= config.failure_threshold

\* the calls admitted whose outcome is not recorded yet
InFlight == Cardinality({c \in Callers : callers[c].pc \in {"admit_io", "running"}})

\* the counters add up: every request counted is a success or a failure, and
\* every call made is in flight or counted once
CountersAddUp ==
    /\ cb.stats.total_requests
         = cb.stats.successful_requests + cb.stats.failed_requests
    /\ calls = cb.stats.successful_requests + cb.stats.failed_requests
                 + cb.stats.rejected_requests + InFlight

\* what a step adds to a counter of the statistics
Raised(counter) == cb'.stats[counter] - cb.stats[counter]

\* C39: without a snapshot, total_requests is successful_requests plus
\* failed_requests in every state, and every call raises exactly one of
\* successful_requests, failed_requests and rejected_requests, by exactly 1,
\* when it is rejected or its outcome recorded, whatever the other callers
\* do meanwhile: no step lowers a counter or raises two of them, and the
\* three add up to the calls made less those still in flight.
C39_CountersAccountForCalls ==
    /\ [](hist.creates = 0 => CountersAddUp)
    /\ [][hist.creates = 0 /\ hist'.creates = 0 =>
            /\ Raised("successful_requests") \in {0, 1}
            /\ Raised("failed_requests") \in {0, 1}
            /\ Raised("rejected_requests") \in {0, 1}
            /\ Raised("successful_requests") + Raised("failed_requests")
                 + Raised("rejected_requests") <= 1]_vars

\* after the warm-up a success, a failure and a rejection are counted while
\* another call is in flight
C39_Witness ==
    /\ cb.stats.successful_requests > WarmUp
    /\ cb.stats.failed_requests >= 1
    /\ cb.stats.rejected_requests >= 1
    /\ InFlight >= 1


\* the bookkeeping of the move to HALF_OPEN is left as it is
HalfOpenKept ==
    /\ cb'.state = "HALF_OPEN"
    /\ cb'.stats.state_changes = cb.stats.state_changes
    /\ cb'.state_changed_at = cb.state_changed_at
    /\ cb'.success_count = cb.success_count

\* C40: callers that arrive together at an OPEN breaker once recovery_timeout
\* has elapsed take the move to HALF_OPEN once: the breaker leaves OPEN for
\* HALF_OPEN only in the step of a call made when the time has elapsed, which
\* raises state_changes by 1 and sets success_count to 0, and a call made
\* while the breaker is HALF_OPEN, the first caller's store writes pending or
\* not, finds HALF_OPEN and leaves state_changes, state_changed_at and
\* success_count alone. (A breaker created anew takes the state of its
\* snapshot, which is no caller's transition.)
C40_HalfOpenTakenOnce ==
    [][~CreateStep =>
        /\ cb.state = "OPEN" /\ cb'.state = "HALF_OPEN" =>
             /\ CallStep
             /\ RecoveryElapsed(cb, now)
             /\ cb'.stats.state_changes = cb.stats.state_changes + 1
             /\ cb'.success_count = 0
             /\ cb'.state_changed_at = now
        /\ cb.state \notin {"OPEN", "HALF_OPEN"} => cb'.state # "HALF_OPEN"
        /\ cb.state = "HALF_OPEN" /\ CallStep => HalfOpenKept]_vars

\* both callers were admitted in the same second after the first trip, one
\* still in the store writes of the transition, and the move was counted once
C40_Witness ==
    /\ cb.state = "HALF_OPEN"
    /\ cb.stats.state_changes = 2
    /\ cb.success_count = 0
    /\ \A c \in Callers : /\ callers[c].pc \in {"admit_io", "running"}
                          /\ callers[c].start = cb.state_changed_at
    /\ \E c \in Callers : callers[c].pc = "admit_io"

====
